---- MODULE Spec2Model ----
(***************************************************************************)
(* Impression analysis engine of qrservice (apps/reviews): the ML          *)
(* classifier with its lazily loaded backends, the orchestrator            *)
(* analyze_review_impressions, the aspect tagger find_aspect_tags and the  *)
(* analysis cache.                                                         *)
(*                                                                         *)
(* A text is a sequence of tokens; a token is one word, one punctuation    *)
(* mark or one run of extra blanks, and the offset of a token is its       *)
(* 0-based index.  Two adjacent words are one blank apart, so that a       *)
(* phrase 'a b' is the token sequence <<a, b>>.                            *)
(* Confidences are integers in thousandths, scores integers in hundredths. *)
(***************************************************************************)
EXTENDS Integers, Sequences, FiniteSets, TLC

VARIABLES onnx_session, onnx_tokenizer, transformers_classifier, cache, last, pinned,
          ml_call, complex_call, reviews, run, qr, requests, morph, rusentilex_global, threads,
          lexicon_file

vars == <<onnx_session, onnx_tokenizer, transformers_classifier, cache, last, pinned,
          ml_call, complex_call, reviews, run, qr, requests, morph, rusentilex_global, threads,
          lexicon_file>>

ml_vars == <<onnx_session, onnx_tokenizer, transformers_classifier>>

\* the records of the last direct call of the classifier and of the conflict detector
classify_vars == <<ml_call, complex_call>>

\* the database: the stored reviews and the run of reanalyze_reviews over
\* them, the row of a QR code and the requests of its short link
batch_vars == <<reviews, run, qr, requests>>

qr_vars == <<qr, requests>>

\* the lazily built globals of lemmatizer.py and segment_analyzer.py and the
\* threads that use them
thread_vars == <<morph, rusentilex_global, threads, lexicon_file>>

----------------------------------------------------------------------------
(* Bounds of the model *)

\* longest text, in tokens, handed to analyze and to find_aspect_tags
MaxLen == 3

\* longest text, in tokens, of several phrases and sentences handed to find_aspect_tags
MaxWindowLen == 4

Ratings == 1..5

----------------------------------------------------------------------------
(* Generic helpers *)

Min(a, b) == IF a < b THEN a ELSE b

Max(a, b) == IF a > b THEN a ELSE b

RECURSIVE SeqsUpTo(_, _)
SeqsUpTo(S, n) ==
    IF n = 0 THEN {<<>>}
    ELSE LET shorter == SeqsUpTo(S, n - 1)
         IN  shorter \cup {Append(s, x) : s \in {t \in shorter : Len(t) = n - 1}, x \in S}

Range(s) == {s[i] : i \in 1..Len(s)}

----------------------------------------------------------------------------
(* Tokens and str methods *)

\* str.lower() on one token
LowerToken(tok) == IF tok = "Eda" THEN "eda" ELSE tok

\* str.lower()
Lower(text) == [i \in 1..Len(text) |-> LowerToken(text[i])]

IsSpace(tok) == tok = " "

\* not text.strip(): the text holds nothing but blanks
IsBlank(text) == \A i \in 1..Len(text) : IsSpace(text[i])

RECURSIVE LStrip(_)
LStrip(s) == IF s # <<>> /\ IsSpace(Head(s)) THEN LStrip(Tail(s)) ELSE s

RECURSIVE RStrip(_)
RStrip(s) == IF s # <<>> /\ IsSpace(s[Len(s)]) THEN RStrip(SubSeq(s, 1, Len(s) - 1)) ELSE s

\* str.strip()
Strip(s) == RStrip(LStrip(s))

----------------------------------------------------------------------------
(* impression_categories.py *)

IMPRESSION_CATEGORIES ==
    [ Servis   |-> << "Servis/personal", "Vezhlivost/uvazhenie", "Hamstvo/grubost/konflikt",
                      "Vnimanie/vovlechennost", "Kompetentnost/znanie menyu",
                      "Reshenie problem/garantiya", "Kommunikaciya/ton", "Navyazyvanie/apsell" >>,
      Skorost  |-> << "Skorost/ozhidanie", "Skorost obsluzhivaniya" >>,
      Produkt  |-> << "Eda/kuhnya", "Napitki/bar", "Kachestvo/svezhest", "Porcii/sytost" >>,
      Cena     |-> << "Cena/cennost" >>,
      Komfort  |-> << "Inter'er/atmosfera", "Chistota/sanitariya" >>,
      Process  |-> << "Bronirovanie/stol", "Upravlenie/organizaciya zala", "Zakaz/oshibki",
                      "Oplata/kassa", "Dostavka/vynos", "Lokaciya/parkovka" >> ]

\* IMPRESSION_CATEGORIES.get(category, [''])[0]
FirstSubcategory(category) ==
    IF category \in DOMAIN IMPRESSION_CATEGORIES
    THEN IMPRESSION_CATEGORIES[category][1]
    ELSE ""

\* the membership test of validate_impression_tag
InTaxonomy(category, subcategory) ==
    /\ category \in DOMAIN IMPRESSION_CATEGORIES
    /\ subcategory \in Range(IMPRESSION_CATEGORIES[category])

GENERAL == "Obshchee"

GENERAL_IMPRESSION == "Obshchee vpechatlenie"

----------------------------------------------------------------------------
(* ml_analyzer.py *)

\* text[:512]
ML_MAX_CHARS == 512

\* the confidence of the ('neutral', 0.5) answer, in thousandths
NEUTRAL_CONFIDENCE == 500

NeutralFallback == [label |-> "neutral", confidence |-> NEUTRAL_CONFIDENCE]

Truncate(text) == SubSeq(text, 1, Min(Len(text), ML_MAX_CHARS))

\* What the sentiment model answers on a text: the arg-max label and its
\* probability.  The model is a fixed function of the text it is given.
ModelOutput(text) ==
    LET toks == Range(Truncate(text)) IN
    IF "vkusno" \in toks THEN [label |-> "positive", confidence |-> 934]
    ELSE IF toks \cap {"minusy", "hamil", "plokho"} # {} THEN [label |-> "negative", confidence |-> 871]
    ELSE IF "oficiant" \in toks THEN [label |-> "positive", confidence |-> 583]
    ELSE IF "Eda" \in toks THEN [label |-> "neutral", confidence |-> 552]
    ELSE [label |-> "neutral", confidence |-> 706]

\* What can happen to the lazy loads and to the inference during one call:
\*   onnx:      "unavailable" (model.onnx missing, or the import / InferenceSession raises),
\*              "tokenizer_error" (the session is created, AutoTokenizer.from_pretrained raises),
\*              "ok"
\*   pipeline:  "ok" | "error"    (transformers.pipeline(...))
\*   inference: "ok" | "error"    (tokenization or the forward pass raises)
MLEnvs == [onnx : {"unavailable", "tokenizer_error", "ok"},
           pipeline : {"ok", "error"},
           inference : {"ok", "error"}]

MLState(session, tokenizer, classifier) ==
    [session |-> session, tokenizer |-> tokenizer, classifier |-> classifier]

\* _load_onnx_model: the value it returns and the globals it leaves
LoadOnnxModel(st, env) ==
    IF st.session THEN [ok |-> TRUE, st |-> st]
    ELSE IF env.onnx = "unavailable" THEN [ok |-> FALSE, st |-> st]
    ELSE IF env.onnx = "tokenizer_error"
         THEN [ok |-> FALSE, st |-> [st EXCEPT !.session = TRUE]]
    ELSE [ok |-> TRUE, st |-> [st EXCEPT !.session = TRUE, !.tokenizer = TRUE]]

\* _load_transformers_model
LoadTransformersModel(st, env) ==
    IF st.classifier THEN [ok |-> TRUE, st |-> st]
    ELSE IF env.pipeline = "ok" THEN [ok |-> TRUE, st |-> [st EXCEPT !.classifier = TRUE]]
    ELSE [ok |-> FALSE, st |-> st]

\* a call that raised has returned nothing
NoAnswer == [label |-> "none", confidence |-> 0]

\* _analyze_with_onnx: calling the tokenizer while it is None raises
AnalyzeWithOnnx(text, st, env) ==
    IF st.tokenizer /\ env.inference = "ok"
    THEN [raised |-> FALSE, out |-> ModelOutput(text)]
    ELSE [raised |-> TRUE, out |-> NoAnswer]

\* _analyze_with_transformers
AnalyzeWithTransformers(text, st, env) ==
    IF env.inference = "ok"
    THEN [raised |-> FALSE, out |-> ModelOutput(text)]
    ELSE [raised |-> TRUE, out |-> NoAnswer]

\* a try block without its except clause: what was raised goes on to the caller
NoExceptClause(r) == r

\* except Exception: return ('neutral', 0.5)
ExceptClause(r) ==
    IF r.raised THEN [raised |-> FALSE, out |-> NeutralFallback] ELSE r

\* what analyze_sentiment_ml hands back: the (label, confidence) it returns
\* unless it raised, the globals it leaves, the backend whose inference it
\* called and whether an exception occurred inside its try block
Classified(r, st, backend, inner) ==
    [out |-> r.out, raised |-> r.raised, st |-> st, backend |-> backend,
     exception |-> inner.raised]

\* analyze_sentiment_ml
AnalyzeSentimentML(text, st, env) ==
    IF text = <<>> \/ IsBlank(text)
    THEN [out |-> NeutralFallback, raised |-> FALSE, st |-> st, backend |-> "none",
          exception |-> FALSE]
    ELSE
      LET onnx == IF st.session THEN [ok |-> TRUE, st |-> st] ELSE LoadOnnxModel(st, env) IN
      IF onnx.ok
      THEN LET inner == AnalyzeWithOnnx(text, onnx.st, env)
           IN  Classified(ExceptClause(inner), onnx.st, "onnx", inner)
      ELSE
        LET pipe == IF onnx.st.classifier THEN [ok |-> TRUE, st |-> onnx.st]
                    ELSE LoadTransformersModel(onnx.st, env) IN
        IF pipe.ok
        THEN LET inner == AnalyzeWithTransformers(text, pipe.st, env)
             IN  Classified(ExceptClause(inner), pipe.st, "pipeline", inner)
        ELSE [out |-> NeutralFallback, raised |-> FALSE, st |-> pipe.st, backend |-> "none",
              exception |-> FALSE]

\* round(x, 2) of x = c / 1000, in hundredths (ties to even)
Round2(c) ==
    LET q == c \div 10
        r == c % 10
    IN  IF r < 5 THEN q
        ELSE IF r > 5 THEN q + 1
        ELSE IF q % 2 = 0 THEN q ELSE q + 1

\* sentiment_to_score taking the confidence for a percentage: 93.4 for 0.934
ScoreInPercent(sentiment, confidence) ==
    IF sentiment = "positive" THEN Round2(confidence * 100)
    ELSE IF sentiment = "negative" THEN 0 - Round2(confidence * 100)
    ELSE 0

\* sentiment_to_score without the sign and without the 0.0 of the neutral label
ConfidenceAsScore(sentiment, confidence) == Round2(confidence)

\* sentiment_to_score, in hundredths
SentimentToScore(sentiment, confidence) ==
    IF sentiment = "positive" THEN Round2(confidence)
    ELSE IF sentiment = "negative" THEN 0 - Round2(confidence)
    ELSE 0

----------------------------------------------------------------------------
(* services.py *)

\* the segment patterns: words that open a list of good / of bad points
POSITIVE_SEGMENT_MARKERS == {"plyusy"}

NEGATIVE_SEGMENT_MARKERS == {"minusy"}

\* category -> marker strings, in the order of the dict
CATEGORY_MARKERS ==
    << [category |-> "Servis",  markers |-> {"oficiant"}],
       [category |-> "Produkt", markers |-> {"eda", "vkusn"}] >>

\* the marker strings a token holds as substrings
SubstringsOf(tok) ==
    IF tok = "vkusno" THEN {"vkusno", "vkusn"} ELSE {tok}

\* marker in segment
MarkerInSegment(marker, segment) ==
    \E i \in 1..Len(segment) : marker \in SubstringsOf(segment[i])

\* the matches of _SEGMENT_PATTERN, as the 1-based indexes of the marker tokens
SegmentMarkerAt(text_lower, i) ==
    text_lower[i] \in POSITIVE_SEGMENT_MARKERS \cup NEGATIVE_SEGMENT_MARKERS

SegmentMarkerType(tok) ==
    IF tok \in POSITIVE_SEGMENT_MARKERS THEN "positive" ELSE "negative"

\* the loop of _segment_text from token i on; prev_end counts the tokens consumed
RECURSIVE SegmentLoop(_, _, _, _, _)
SegmentLoop(text_lower, i, prev_end, prev_sentiment, segments) ==
    IF i > Len(text_lower)
    THEN IF prev_end < Len(text_lower)
         THEN LET segment_text == Strip(SubSeq(text_lower, prev_end + 1, Len(text_lower)))
              IN  IF segment_text # <<>>
                  THEN Append(segments, <<segment_text, prev_sentiment>>)
                  ELSE segments
         ELSE segments
    ELSE IF SegmentMarkerAt(text_lower, i)
    THEN LET start == i - 1
             segment_text == Strip(SubSeq(text_lower, prev_end + 1, start))
             segs == IF start > prev_end /\ segment_text # <<>>
                     THEN Append(segments, <<segment_text, prev_sentiment>>)
                     ELSE segments
         IN  SegmentLoop(text_lower, i + 1, i, SegmentMarkerType(text_lower[i]), segs)
    ELSE SegmentLoop(text_lower, i + 1, prev_end, prev_sentiment, segments)

\* _segment_text
SegmentText(text) ==
    LET text_lower == Lower(text) IN
    IF \A i \in 1..Len(text_lower) : ~SegmentMarkerAt(text_lower, i)
    THEN << <<text_lower, "default">> >>
    ELSE LET segments == SegmentLoop(text_lower, 1, 0, "default", <<>>)
         IN  IF segments # <<>> THEN segments ELSE << <<text_lower, "default">> >>

\* _find_tags_in_segment from the c-th category on: the tags and the set found
RECURSIVE FindTagsInSegmentFrom(_, _, _, _)
FindTagsInSegmentFrom(c, segment, sentiment, found) ==
    IF c > Len(CATEGORY_MARKERS) THEN [tags |-> <<>>, found |-> found]
    ELSE LET category == CATEGORY_MARKERS[c].category
             hit == /\ category \notin found
                    /\ \E marker \in CATEGORY_MARKERS[c].markers : MarkerInSegment(marker, segment)
             rest == FindTagsInSegmentFrom(c + 1, segment, sentiment,
                                           IF hit THEN found \cup {category} ELSE found)
         IN  IF hit
             THEN [tags |-> <<[category |-> category,
                               subcategory |-> FirstSubcategory(category),
                               sentiment |-> sentiment]>> \o rest.tags,
                   found |-> rest.found]
             ELSE rest

FindTagsInSegment(segment, sentiment, found) ==
    FindTagsInSegmentFrom(1, segment, sentiment, found)

RECURSIVE FindTagsLoop(_, _, _, _)
FindTagsLoop(segments, k, base_sentiment, found) ==
    IF k > Len(segments) THEN <<>>
    ELSE LET segment_hint == segments[k][2]
             sentiment == IF segment_hint = "default" THEN base_sentiment ELSE segment_hint
             got == FindTagsInSegment(segments[k][1], sentiment, found)
         IN  got.tags \o FindTagsLoop(segments, k + 1, base_sentiment, got.found)

\* _find_tags
FindTags(text_lower, base_sentiment) ==
    FindTagsLoop(SegmentText(text_lower), 1, base_sentiment, {})

\* below this confidence (thousandths) the rating decides the base sentiment
CONFIDENCE_THRESHOLD == 600

\* the rating thresholds moved outwards by one: only 5 is positive, only 1 negative
RatingSentimentExtremes(rating) ==
    IF rating >= 5 THEN "positive" ELSE IF rating <= 1 THEN "negative" ELSE "neutral"

\* 'positive' if rating >= 4 else ('negative' if rating <= 2 else 'neutral')
RatingSentiment(rating) ==
    IF rating >= 4 THEN "positive" ELSE IF rating <= 2 THEN "negative" ELSE "neutral"

GeneralTag(sentiment) ==
    [category |-> GENERAL, subcategory |-> GENERAL_IMPRESSION, sentiment |-> sentiment]

\* analyze_review_impressions: the (tags, score) it returns and the ML globals it leaves
AnalyzeReviewImpressions(text, rating, st, env) ==
    LET ml == AnalyzeSentimentML(text, st, env)
        sentiment_score == SentimentToScore(ml.out.label, ml.out.confidence)
        base_sentiment == IF ml.out.confidence < CONFIDENCE_THRESHOLD
                          THEN RatingSentiment(rating)
                          ELSE ml.out.label
        tags == IF text = <<>> THEN <<GeneralTag(base_sentiment)>>
                ELSE LET found == FindTags(Lower(text), base_sentiment)
                     IN  IF found = <<>> THEN <<GeneralTag(base_sentiment)>> ELSE found
    IN  [result |-> [tags |-> tags, score |-> sentiment_score], st |-> ml.st]

----------------------------------------------------------------------------
(* lemmatizer.py and the lexicons of dictionaries.py *)

\* get_lemma: the normal form pymorphy3 gives a lowercase word
GetLemma(word) ==
    CASE word = "hamil" -> "hamit"
      [] word = "vkusno" -> "vkusnyj"
      [] word = "plokho" -> "plokhoj"
      [] word = "dolgo" -> "dolgij"
      [] OTHER -> word

NEGATORS == {"ne", "net", "ni"}

NEGATIVE_LEMMAS == {"hamit", "plokhoj"}

POSITIVE_LEMMAS == {"vkusnyj"}

NEGATABLE_WORDS == {"vkusnyj", "plokhoj"}

LITOTES == {"plokhoj"}

EXCLUDED_FROM_SENTIMENT == {"eda"}

\* ADVERB_TO_ADJ.get(lemma, lemma)
AdverbToAdj(lemma) == IF lemma = "dolgo" THEN "dolgij" ELSE lemma

\* (pattern, description): a pattern is the token sequence it matches
ASPECT_WAIT_TIME_PATTERNS == << [pattern |-> <<"dolgo">>, desc |-> <<"dolgo", "ozhidanie">>] >>

PERSONNEL_NEGATIVE_PATTERNS ==
    << [pattern |-> <<"oficiant", "hamil">>, desc |-> <<"oficiant", "hamit">>] >>

NEGATIVE_PHRASES == << <<"ne", "eda">> >>

POSITIVE_PHRASES == << <<"vkusno", "eda">> >>

\* 'ne ochen', 'ne osobo', 'ne slishkom', 'ne tak'
NOT_VERY_PREFIXES == { <<"ne", "ochen">>, <<"ne", "osobo">>, <<"ne", "slishkom">>, <<"ne", "tak">> }

\* word.endswith(('ee', 'ej', 'she')) and len(word) > 3
IsComparative(word) == word \in {"bystree", "luchshe"}

COMPARATIVE_CONTEXT_MARKERS == {"drugom"}

\* the lexicon _load_rusentilex returns once data/rusentilex.txt is read
RuSentiLex == [lemma \in {"dolgij", "skuchnyj"} |-> "negative"]

\* CATEGORY_LEMMAS with EXTENDED_CATEGORY_MARKERS merged in (_get_category_lemmas),
\* in the order of the dict
CategoryLemmas ==
    << [category |-> "Servis",  lemmas |-> {"oficiant", "hamit"}],
       [category |-> "Produkt", lemmas |-> {"eda"}] >>

\* SUBCATEGORY_MARKERS: category -> (subcategory, lemmas) in the order of the dict
SUBCATEGORY_MARKERS ==
    [ Servis  |-> << [subcategory |-> "Hamstvo/grubost/konflikt", lemmas |-> {"hamit"}],
                     [subcategory |-> "Vezhlivost/uvazhenie", lemmas |-> {"vezhlivyj"}] >>,
      Produkt |-> << [subcategory |-> "Eda/kuhnya", lemmas |-> {"eda"}],
                     [subcategory |-> "Kachestvo/svezhest", lemmas |-> {"vkusnyj", "plokhoj"}] >> ]

----------------------------------------------------------------------------
(* segment_analyzer.py: text positions *)

\* a token matched by [a-ya-yoA-YA-YO]+
IsWord(tok) == tok \notin {",", ".", " "}

RECURSIVE SelectWords(_)
SelectWords(s) ==
    IF s = <<>> THEN <<>>
    ELSE IF IsWord(Head(s)) THEN <<Head(s)>> \o SelectWords(Tail(s))
    ELSE SelectWords(Tail(s))

\* re.findall(r'[a-ya-yo...]+', text_lower)
FindWords(text_lower) == SelectWords(text_lower)

\* the offsets at which the token sequence needle starts in hay
MatchStarts(hay, needle) ==
    {q \in 0..(Len(hay) - Len(needle)) : SubSeq(hay, q + 1, q + Len(needle)) = needle}

LeastOrMinusOne(S) == IF S = {} THEN 0 - 1 ELSE CHOOSE q \in S : \A o \in S : q <= o

\* hay.find(needle) for a phrase, and the start of re.search(pattern, hay)
FindSeq(hay, needle) == LeastOrMinusOne(MatchStarts(hay, needle))

\* text_lower.find(word): the first token holding the word as a substring
FindSubstring(text_lower, word) ==
    LeastOrMinusOne({q \in 0..(Len(text_lower) - 1) : word \in SubstringsOf(text_lower[q + 1])})

\* _find_all_word_positions, as the set of offsets
FindAllWordPositions(text, word) ==
    {q \in 0..(Len(text) - 1) : Lower(text)[q + 1] = LowerToken(word)}

\* _find_word_position
FindWordPosition(text, word) == LeastOrMinusOne(FindAllWordPositions(text, word))

\* split_to_ranges: the (start, end) of every part between two delimiters,
\* from offset start on with the part's tokens counted so far in n
RECURSIVE SplitToRanges(_, _, _, _)
SplitToRanges(text_lower, delimiters, start, n) ==
    IF start + n >= Len(text_lower) THEN << <<start, start + n>> >>
    ELSE IF text_lower[start + n + 1] \in delimiters
    THEN << <<start, start + n>> >> \o SplitToRanges(text_lower, delimiters, start + n + 1, 0)
    ELSE SplitToRanges(text_lower, delimiters, start, n + 1)

\* _get_text_ranges: the phrase ranges ([,;.!?]) and the sentence ranges ([.!?])
PhraseRanges(text) == SplitToRanges(Lower(text), {",", "."}, 0, 0)

SentenceRanges(text) == SplitToRanges(Lower(text), {"."}, 0, 0)

\* a window that is the whole text, whatever the position
WholeText(position, ranges) ==
    <<0, IF ranges # <<>> THEN ranges[Len(ranges)][2] ELSE 0>>

\* _position_in_range
PositionInRange(position, ranges) ==
    LET hits == {i \in 1..Len(ranges) : ranges[i][1] <= position /\ position < ranges[i][2]}
    IN  IF hits # {} THEN ranges[CHOOSE i \in hits : \A j \in hits : i <= j]
        ELSE <<0, IF ranges # <<>> THEN ranges[Len(ranges)][2] ELSE 0>>

\* the sentence of the marker alone, with no neighbour
OwnSentenceOnly(marker_pos, sentence_ranges) ==
    LET hits == {i \in 1..Len(sentence_ranges) :
                    sentence_ranges[i][1] <= marker_pos /\ marker_pos < sentence_ranges[i][2]}
    IN  IF hits = {} THEN [found |-> FALSE, start |-> 0, end |-> 0]
        ELSE LET sent_idx == CHOOSE i \in hits : \A j \in hits : i <= j
             IN  [found |-> TRUE, start |-> sentence_ranges[sent_idx][1],
                  end |-> sentence_ranges[sent_idx][2]]

\* the sentence of the marker extended by one sentence on each side; (0, 0)
\* when no sentence holds the marker
ExtendedRange(marker_pos, sentence_ranges) ==
    LET hits == {i \in 1..Len(sentence_ranges) :
                    sentence_ranges[i][1] <= marker_pos /\ marker_pos < sentence_ranges[i][2]}
    IN  IF hits = {} THEN [found |-> FALSE, start |-> 0, end |-> 0]
        ELSE LET sent_idx == CHOOSE i \in hits : \A j \in hits : i <= j
             IN  [found |-> TRUE,
                  start |-> sentence_ranges[Max(1, sent_idx - 1)][1],
                  end |-> sentence_ranges[Min(Len(sentence_ranges), sent_idx + 1)][2]]

----------------------------------------------------------------------------
(* segment_analyzer.py: the sentiment collector *)

\* a SentimentWord (word, lemma, sentiment, pos); word and lemma are token sequences
SentimentWord(word, lemma, sentiment, pos) ==
    [word |-> word, lemma |-> lemma, sentiment |-> sentiment, pos |-> pos]

\* what the collector has gathered: sentiment_words, positive_found,
\* negative_found and the implicit category markers
Collected(sentiment_words, positive_found, negative_found, implicit_markers) ==
    [sentiment_words |-> sentiment_words, positive_found |-> positive_found,
     negative_found |-> negative_found, implicit_markers |-> implicit_markers]

AddNegative(acc, sw) ==
    [acc EXCEPT !.sentiment_words = Append(@, sw), !.negative_found = Append(@, sw.word)]

AddPositive(acc, sw) ==
    [acc EXCEPT !.sentiment_words = Append(@, sw), !.positive_found = Append(@, sw.word)]

\* the loop over ASPECT_WAIT_TIME_PATTERNS
RECURSIVE CollectWaitTime(_, _, _, _)
CollectWaitTime(k, text, text_lower, acc) ==
    IF k > Len(ASPECT_WAIT_TIME_PATTERNS) THEN acc
    ELSE LET pattern == ASPECT_WAIT_TIME_PATTERNS[k].pattern
             search_text == IF "CHAS" \in Range(pattern) THEN text ELSE text_lower
             start == FindSeq(search_text, pattern)
             group0 == SubSeq(search_text, start + 1, start + Len(pattern))
         IN  CollectWaitTime(k + 1, text, text_lower,
                 IF start >= 0
                 THEN AddNegative(acc, SentimentWord(group0, ASPECT_WAIT_TIME_PATTERNS[k].desc,
                                                     "negative", start))
                 ELSE acc)

\* the loop over PERSONNEL_NEGATIVE_PATTERNS
RECURSIVE CollectPersonnel(_, _, _)
CollectPersonnel(k, text_lower, acc) ==
    IF k > Len(PERSONNEL_NEGATIVE_PATTERNS) THEN acc
    ELSE LET pattern == PERSONNEL_NEGATIVE_PATTERNS[k].pattern
             start == FindSeq(text_lower, pattern)
             group0 == SubSeq(text_lower, start + 1, start + Len(pattern))
             hit == AddNegative(acc, SentimentWord(group0, PERSONNEL_NEGATIVE_PATTERNS[k].desc,
                                                   "negative", start))
         IN  CollectPersonnel(k + 1, text_lower,
                 IF start >= 0
                 THEN [hit EXCEPT !.implicit_markers =
                          Append(@, [category |-> "Servis", marker_word |-> group0, pos |-> start])]
                 ELSE acc)

\* the loops over NEGATIVE_PHRASES and POSITIVE_PHRASES
RECURSIVE CollectPhrases(_, _, _, _, _)
CollectPhrases(phrases, k, sentiment, text_lower, acc) ==
    IF k > Len(phrases) THEN acc
    ELSE LET phrase == phrases[k]
             pos == FindSeq(text_lower, phrase)
             sw == SentimentWord(phrase, phrase, sentiment, pos)
         IN  CollectPhrases(phrases, k + 1, sentiment, text_lower,
                 IF pos >= 0
                 THEN IF sentiment = "negative" THEN AddNegative(acc, sw) ELSE AddPositive(acc, sw)
                 ELSE acc)

\* _collect_pattern_sentiments
CollectPatternSentiments(text, text_lower) ==
    LET a == CollectWaitTime(1, text, text_lower, Collected(<<>>, <<>>, <<>>, <<>>))
        b == CollectPersonnel(1, text_lower, a)
        c == CollectPhrases(NEGATIVE_PHRASES, 1, "negative", text_lower, b)
    IN  CollectPhrases(POSITIVE_PHRASES, 1, "positive", text_lower, c)

\* the position recorded for 'ne ' + word: text_lower.find(phrase), or
\* _find_word_position(text, word) when the phrase is not in the text
NegationPosition(text, text_lower, word) ==
    LET pos == FindSeq(text_lower, <<"ne", word>>)
    IN  IF pos = 0 - 1 THEN FindWordPosition(text, word) ELSE pos

\* a negation that knows no litotes
NegatedSentimentNoLitotes(lemma) ==
    IF lemma \in POSITIVE_LEMMAS \/ lemma \in NEGATABLE_WORDS THEN "negative"
    ELSE "none"

\* what a negator makes of the word after it: a litotes turns positive
\* (lines 165-172), a positive or negatable word negative (175-181)
NegatedSentiment(lemma) ==
    IF lemma \in LITOTES THEN "positive"
    ELSE IF lemma \in POSITIVE_LEMMAS \/ lemma \in NEGATABLE_WORDS THEN "negative"
    ELSE "none"

\* _collect_negation_sentiments, from the i-th word on
RECURSIVE CollectNegationSentiments(_, _, _, _, _)
CollectNegationSentiments(words, i, text_lower, text, acc) ==
    IF i > Len(words) THEN acc
    ELSE LET word == words[i]
             lemma == GetLemma(word)
             phrase == <<"ne", word>>
             pos == NegationPosition(text, text_lower, word)
         IN  CollectNegationSentiments(words, i + 1, text_lower, text,
                 IF i > 1 /\ words[i - 1] \in NEGATORS
                 THEN IF NegatedSentiment(lemma) = "positive"
                      THEN AddPositive(acc, SentimentWord(phrase, <<lemma>>, "positive", pos))
                      ELSE IF NegatedSentiment(lemma) = "negative"
                      THEN AddNegative(acc, SentimentWord(phrase, <<lemma>>, "negative", pos))
                      ELSE acc
                 ELSE acc)

\* word in sw[0]: the word is a substring of the surface text
WordInSurface(word, surface) ==
    \E i \in 1..Len(surface) : word \in SubstringsOf(surface[i])

\* the text before word_pos, stripped, ends with 'ne ochen', 'ne osobo', ...
AfterNotVery(text_lower, word_pos) ==
    LET prefix == Strip(SubSeq(text_lower, 1, word_pos))
    IN  /\ word_pos > 0
        /\ Len(prefix) >= 2
        /\ SubSeq(prefix, Len(prefix) - 1, Len(prefix)) \in NOT_VERY_PREFIXES

\* a comparative with a comparative-context marker around it
InComparativeContext(text_lower, word, word_pos) ==
    /\ IsComparative(word)
    /\ word_pos >= 0
    /\ Range(text_lower) \cap COMPARATIVE_CONTEXT_MARKERS # {}

\* the sentiment of one word: the HoReCa lemma sets first, then the general lexicon
WordSentiment(lemma, rusentilex) ==
    LET lookup_lemma == AdverbToAdj(lemma) IN
    IF lemma \in NEGATIVE_LEMMAS \/ lookup_lemma \in NEGATIVE_LEMMAS THEN "negative"
    ELSE IF lemma \in POSITIVE_LEMMAS \/ lookup_lemma \in POSITIVE_LEMMAS THEN "positive"
    ELSE IF lemma \notin EXCLUDED_FROM_SENTIMENT /\ lookup_lemma \in DOMAIN rusentilex
    THEN rusentilex[lookup_lemma]
    ELSE "none"

\* _collect_word_sentiments, from the i-th word on
RECURSIVE CollectWordSentiments(_, _, _, _, _)
CollectWordSentiments(words, i, text, rusentilex, acc) ==
    IF i > Len(words) THEN acc
    ELSE LET word == words[i]
             lemma == GetLemma(word)
             text_lower == Lower(text)
             word_pos == FindSubstring(text_lower, word)
             claimed == \E k \in 1..Len(acc.sentiment_words) :
                            WordInSurface(word, acc.sentiment_words[k].word)
             sentiment == WordSentiment(lemma, rusentilex)
             sw == SentimentWord(<<word>>, <<lemma>>, sentiment, FindWordPosition(text, word))
         IN  CollectWordSentiments(words, i + 1, text, rusentilex,
                 IF claimed \/ AfterNotVery(text_lower, word_pos)
                    \/ InComparativeContext(text_lower, word, word_pos)
                 THEN acc
                 ELSE IF sentiment = "positive" THEN AddPositive(acc, sw)
                 ELSE IF sentiment = "negative" THEN AddNegative(acc, sw)
                 ELSE acc)

\* the three collector passes of find_aspect_tags
CollectSentiments(text, rusentilex) ==
    LET text_lower == Lower(text)
        words == FindWords(text_lower)
        a == CollectPatternSentiments(text, text_lower)
        b == CollectNegationSentiments(words, 1, text_lower, text, a)
    IN  CollectWordSentiments(words, 1, text, rusentilex, b)

----------------------------------------------------------------------------
(* segment_analyzer.py: category markers and their sentiment *)

\* a CategoryMarker (category, marker_word, pos); marker_word is a token sequence
CategoryMarker(category, marker_word, pos) ==
    [category |-> category, marker_word |-> marker_word, pos |-> pos]

\* the offsets of a set in ascending order, as re.finditer yields them
RECURSIVE Ascending(_)
Ascending(S) ==
    IF S = {} THEN <<>>
    ELSE LET least == CHOOSE q \in S : \A o \in S : q <= o
         IN  <<least>> \o Ascending(S \ {least})

\* the inner loop of _find_category_markers over the positions of one word
RECURSIVE MarkersAtPositions(_, _, _, _)
MarkersAtPositions(category, word, positions, markers) ==
    IF positions = <<>> THEN markers
    ELSE LET pos == Head(positions)
             seen == \E k \in 1..Len(markers) :
                         markers[k].category = category /\ markers[k].pos = pos
         IN  MarkersAtPositions(category, word, Tail(positions),
                 IF seen THEN markers ELSE Append(markers, CategoryMarker(category, <<word>>, pos)))

\* _find_category_markers, from the k-th category and its i-th word on
RECURSIVE FindCategoryMarkersFrom(_, _, _, _, _)
FindCategoryMarkersFrom(k, i, words, text, markers) ==
    IF k > Len(CategoryLemmas) THEN markers
    ELSE IF i > Len(words) THEN FindCategoryMarkersFrom(k + 1, 1, words, text, markers)
    ELSE FindCategoryMarkersFrom(k, i + 1, words, text,
             IF GetLemma(words[i]) \in CategoryLemmas[k].lemmas
             THEN MarkersAtPositions(CategoryLemmas[k].category, words[i],
                                     Ascending(FindAllWordPositions(text, words[i])), markers)
             ELSE markers)

FindCategoryMarkers(words, text) == FindCategoryMarkersFrom(1, 1, words, text, <<>>)

\* word.startswith('ne '): a negation counts twice
Weight(word) == IF Len(word) > 1 /\ word[1] = "ne" THEN 2 ELSE 1

\* _count_sentiment_in_range, from the k-th sentiment word on
RECURSIVE CountSentimentFrom(_, _, _, _)
CountSentimentFrom(k, sentiment_words, start, end) ==
    IF k > Len(sentiment_words) THEN [pos_count |-> 0, neg_count |-> 0, evidence |-> <<>>]
    ELSE LET sw == sentiment_words[k]
             rest == CountSentimentFrom(k + 1, sentiment_words, start, end)
         IN  IF sw.pos >= 0 /\ start <= sw.pos /\ sw.pos < end
             THEN [pos_count |-> rest.pos_count + (IF sw.sentiment = "positive" THEN Weight(sw.word) ELSE 0),
                   neg_count |-> rest.neg_count + (IF sw.sentiment = "negative" THEN Weight(sw.word) ELSE 0),
                   evidence |-> <<sw.word>> \o rest.evidence]
             ELSE rest

CountSentimentInRange(sentiment_words, start, end) ==
    CountSentimentFrom(1, sentiment_words, start, end)

\* {get_lemma(w) for w in re.findall(words, s.lower())}
LemmasOf(s) == {GetLemma(w) : w \in Range(FindWords(Lower(s)))}

\* get_lemma(marker_word): a multi-word match of a personnel pattern is no
\* single word and comes back as it is, which is the lemma of no marker
MarkerLemmas(marker_word) ==
    IF Len(marker_word) = 1 THEN {GetLemma(marker_word[1])} ELSE {}

\* relevant_lemmas of _determine_subcategories
RelevantLemmas(marker_word, evidence, sentiment_words, marker_pos, sentence_ranges, text) ==
    LET ext == ExtendedRange(marker_pos, sentence_ranges)
        inWindow == {k \in 1..Len(sentiment_words) :
                        /\ sentiment_words[k].pos >= 0
                        /\ ext.start <= sentiment_words[k].pos
                        /\ sentiment_words[k].pos < ext.end}
    IN  MarkerLemmas(marker_word)
        \cup UNION {LemmasOf(evidence[k]) : k \in 1..Len(evidence)}
        \cup UNION {LemmasOf(sentiment_words[k].lemma) \cup LemmasOf(sentiment_words[k].word) :
                        k \in inWindow}
        \cup (IF text # <<>> /\ ext.end > ext.start
              THEN LemmasOf(SubSeq(text, ext.start + 1, ext.end))
              ELSE {})

\* the subcategories of subcat_map with a marker among the lemmas, in the order of the dict
RECURSIVE MatchedSubcategories(_, _, _)
MatchedSubcategories(subcat_map, k, relevant_lemmas) ==
    IF k > Len(subcat_map) THEN <<>>
    ELSE (IF relevant_lemmas \cap subcat_map[k].lemmas # {}
          THEN <<subcat_map[k].subcategory>> ELSE <<>>)
         \o MatchedSubcategories(subcat_map, k + 1, relevant_lemmas)

\* _determine_subcategories
DetermineSubcategories(category, marker_word, evidence, sentiment_words, marker_pos, sentence_ranges, text) ==
    IF category \notin DOMAIN SUBCATEGORY_MARKERS THEN <<FirstSubcategory(category)>>
    ELSE LET matched == MatchedSubcategories(SUBCATEGORY_MARKERS[category], 1,
                            RelevantLemmas(marker_word, evidence, sentiment_words,
                                           marker_pos, sentence_ranges, text))
         IN  IF matched # <<>> THEN matched ELSE <<FirstSubcategory(category)>>

\* s[:3]
FirstThree(s) == SubSeq(s, 1, Min(3, Len(s)))

Tag(category, subcategory, sentiment, marker, evidence) ==
    [category |-> category, subcategory |-> subcategory, sentiment |-> sentiment,
     marker |-> marker, evidence |-> evidence]

\* _determine_category_sentiment: phrase, then sentence, then the sentences around it
DetermineCategorySentiment(marker, sentiment_words, phrase_ranges, sentence_ranges, text) ==
    LET phrase_range == PositionInRange(marker.pos, phrase_ranges)
        sent_range == PositionInRange(marker.pos, sentence_ranges)
        ext == ExtendedRange(marker.pos, sentence_ranges)
        Empty(c) == c.pos_count = 0 /\ c.neg_count = 0
        inPhrase == CountSentimentInRange(sentiment_words, phrase_range[1], phrase_range[2])
        inSentence == IF Empty(inPhrase)
                      THEN CountSentimentInRange(sentiment_words, sent_range[1], sent_range[2])
                      ELSE inPhrase
        counted == IF Empty(inSentence) /\ ext.found
                   THEN CountSentimentInRange(sentiment_words, ext.start, ext.end)
                   ELSE inSentence
        final_sentiment == IF counted.neg_count > counted.pos_count THEN "negative"
                           ELSE IF counted.pos_count > counted.neg_count THEN "positive"
                           ELSE "neutral"
        subcategories == DetermineSubcategories(marker.category, marker.marker_word,
                             counted.evidence, sentiment_words, marker.pos, sentence_ranges, text)
    IN  [k \in 1..Len(subcategories) |->
            Tag(marker.category, subcategories[k], final_sentiment, marker.marker_word,
                FirstThree(counted.evidence))]

\* a fallback that calls a tie positive
FallbackPositiveOnTie(positive_found, negative_found) ==
    IF positive_found = <<>> /\ negative_found = <<>> THEN <<>>
    ELSE IF Len(negative_found) > Len(positive_found)
    THEN <<Tag(GENERAL, GENERAL_IMPRESSION, "negative", <<"-">>, FirstThree(negative_found))>>
    ELSE <<Tag(GENERAL, GENERAL_IMPRESSION, "positive", <<"-">>, FirstThree(positive_found))>>

\* _create_fallback_result; <<>> stands for None
CreateFallbackResult(positive_found, negative_found) ==
    IF positive_found = <<>> /\ negative_found = <<>> THEN <<>>
    ELSE IF Len(negative_found) > Len(positive_found)
    THEN <<Tag(GENERAL, GENERAL_IMPRESSION, "negative", <<"-">>, FirstThree(negative_found))>>
    ELSE IF Len(positive_found) > Len(negative_found)
    THEN <<Tag(GENERAL, GENERAL_IMPRESSION, "positive", <<"-">>, FirstThree(positive_found))>>
    ELSE <<Tag(GENERAL, GENERAL_IMPRESSION, "neutral", <<"-">>,
               FirstThree(negative_found \o positive_found))>>

\* the loop of find_aspect_tags over the category markers
RECURSIVE TagsOfMarkers(_, _, _, _, _)
TagsOfMarkers(category_markers, sentiment_words, phrase_ranges, sentence_ranges, text) ==
    IF category_markers = <<>> THEN <<>>
    ELSE DetermineCategorySentiment(Head(category_markers), sentiment_words,
                                    phrase_ranges, sentence_ranges, text)
         \o TagsOfMarkers(Tail(category_markers), sentiment_words,
                          phrase_ranges, sentence_ranges, text)

\* a deduplication that remembers nothing
NeverSeen(r, seen) == FALSE

\* the key (category, subcategory) of a tag is already in seen
SeenBefore(r, seen) == <<r.category, r.subcategory>> \in seen

\* the deduplication of find_aspect_tags: the first tag of every
\* (category, subcategory) stays
RECURSIVE UniqueResults(_, _)
UniqueResults(results, seen) ==
    IF results = <<>> THEN <<>>
    ELSE LET r == Head(results)
         IN  IF SeenBefore(r, seen) THEN UniqueResults(Tail(results), seen)
             ELSE <<r>> \o UniqueResults(Tail(results), seen \cup {<<r.category, r.subcategory>>})

\* [r for r in results if r['category'] != GENERAL]
RECURSIVE SpecificResults(_)
SpecificResults(results) ==
    IF results = <<>> THEN <<>>
    ELSE (IF Head(results).category # GENERAL THEN <<Head(results)>> ELSE <<>>)
         \o SpecificResults(Tail(results))

\* a fallback asked for whatever tags are there
FallbackAlways(results) == TRUE

\* a fallback never asked for
FallbackNever(results) == FALSE

\* if not results: the fallback is asked for when no tag is left
FallbackNeeded(results) == results = <<>>

\* find_aspect_tags, with the lexicon _load_rusentilex hands it
FindAspectTagsWith(text, rusentilex) ==
    IF text = <<>> \/ IsBlank(text) THEN <<>>
    ELSE LET text_lower == Lower(text)
             words == FindWords(text_lower)
             got == CollectSentiments(text, rusentilex)
             category_markers == FindCategoryMarkers(words, text) \o got.implicit_markers
             all == TagsOfMarkers(category_markers, got.sentiment_words,
                                  PhraseRanges(text), SentenceRanges(text), text)
             unique_results == UniqueResults(all, {})
             specific_results == SpecificResults(unique_results)
             results == IF specific_results # <<>> THEN specific_results ELSE unique_results
         IN  IF FallbackNeeded(results)
             THEN results \o CreateFallbackResult(got.positive_found, got.negative_found)
             ELSE results

FindAspectTags(text) == FindAspectTagsWith(text, RuSentiLex)

----------------------------------------------------------------------------
(* Conflict detector *)

\* the number of tags of one sentiment, counted tag by tag
RECURSIVE CountTags(_, _)
CountTags(tags, sentiment) ==
    IF tags = <<>> THEN 0
    ELSE (IF Head(tags).sentiment = sentiment THEN 1 ELSE 0) + CountTags(Tail(tags), sentiment)

\* a low rating that stops short of 3
BelowThreeOnlyPositive(rating, pos, neg) == rating < 3 /\ neg = 0 /\ pos >= 1

\* rating <= 3 with positive tags only
LowRatingOnlyPositive(rating, pos, neg) == rating <= 3 /\ neg = 0 /\ pos >= 1

\* rating 1 with more positive than negative tags, both present
WorstRatingMostlyPositive(rating, pos, neg) == rating = 1 /\ pos > 0 /\ neg > 0 /\ pos > neg

\* rating 5 with negative tags only
BestRatingOnlyNegative(rating, pos, neg) == rating = 5 /\ pos = 0 /\ neg >= 1

\* rating >= 4 with more than twice as many negative as positive tags
HighRatingMostlyNegative(rating, pos, neg) == rating >= 4 /\ neg >= 1 /\ neg > 2 * pos

\* isComplex(rating, tags): rating and tag sentiments disagree
IsComplex(rating, tags) ==
    LET pos == CountTags(tags, "positive")
        neg == CountTags(tags, "negative")
    IN  IF LowRatingOnlyPositive(rating, pos, neg) THEN TRUE
        ELSE IF WorstRatingMostlyPositive(rating, pos, neg) THEN TRUE
        ELSE IF BestRatingOnlyNegative(rating, pos, neg) THEN TRUE
        ELSE IF HighRatingMostlyNegative(rating, pos, neg) THEN TRUE
        ELSE FALSE

----------------------------------------------------------------------------
(* cache.py *)

\* the score of the (tags, score) returned for a blank text: 0.5, in hundredths
BLANK_SCORE == 50

TokenCode(tok) ==
    CASE tok = " " -> 1
      [] tok = "Eda" -> 2
      [] tok = "vkusno" -> 3
      [] tok = "oficiant" -> 4
      [] OTHER -> 5

\* hashlib.md5(text.encode('utf-8')).hexdigest()[:16]: a digest of the raw text
\* (its case and its blanks included), taken to be free of collisions on the
\* texts of the model
RECURSIVE TextHash(_)
TextHash(text) ==
    IF text = <<>> THEN 7
    ELSE TextHash(SubSeq(text, 1, Len(text) - 1)) * 11 + TokenCode(text[Len(text)])

\* _make_cache_key
MakeCacheKey(text, rating) == <<"review_analysis", TextHash(text), rating>>

EmptyResult == [tags |-> <<>>, score |-> 0]

NoEntry == [present |-> FALSE, value |-> EmptyResult]

Entry(result) == [present |-> TRUE, value |-> result]

----------------------------------------------------------------------------
(* The program: one process holding the ML globals and the cache backend *)

\* the texts and ratings the callers of the cache and of analyze pass
SpecTexts == {<<>>, <<" ">>, <<"vkusno">>, <<"Eda">>}

SpecRatings == {3, 5}

CacheKeys == {MakeCacheKey(t, r) : t \in SpecTexts, r \in SpecRatings}

Backends == {"up", "down"}

MLNow == [session |-> onnx_session, tokenizer |-> onnx_tokenizer,
          classifier |-> transformers_classifier]

SetML(st) ==
    /\ onnx_session' = st.session
    /\ onnx_tokenizer' = st.tokenizer
    /\ transformers_classifier' = st.classifier

\* the record of the last call: what was asked, whether a round-trip to the
\* cache backend failed during it, whether it returned or raised, what it
\* returned and whether analyze_review_impressions ran during it
Call(op, text, rating, force, outage, returned, result, raised, invoked) ==
    [op |-> op, text |-> text, rating |-> rating, force |-> force, outage |-> outage,
     returned |-> returned, result |-> result, raised |-> raised, invoked |-> invoked]

NoCall == Call("none", <<>>, 0, FALSE, FALSE, FALSE, EmptyResult, FALSE, FALSE)

NotPinned == [set |-> FALSE, text |-> <<>>, rating |-> 0, result |-> EmptyResult]

\* nothing has called the classifier directly yet
NoClassifierCall == [op |-> "none"]

\* the values of the state that the cache and the single analyses leave alone
NoDetectorCall == [op |-> "none"]

NoReviews == <<>>

NoRun == [pc |-> "idle"]

\* requests of the short link handled at the same time
MaxHandlers == 2

\* most scans of the QR code
MaxScans == 3

Handlers == 1..MaxHandlers

\* a QR code as created: scans = 0, is_active = True, no row of QRScan
NewQR == [scans |-> 0, is_active |-> TRUE, scan_logs |-> 0]

\* no request under way; a request keeps the scans of the row it has loaded
NoRequests == [h \in Handlers |-> [pc |-> "idle", scans |-> 0]]

\* _morph = None: no instance (0), none constructed so far
NoMorph == [instance |-> 0, constructed |-> 0]

\* _rusentilex = None
NotLoaded == [assigned |-> FALSE, lemmas |-> {}]

\* data/rusentilex.txt before any load has looked for it
FileNotSeen == [seen |-> FALSE, exists |-> FALSE, raises |-> FALSE, good |-> 0]

\* threads of the process that call get_lemma and find_aspect_tags
MaxThreads == 2

Threads == 1..MaxThreads

\* a thread between calls: the operation it last ran, its argument, what it
\* has read of the lexicon file, the analyzer instance it got and its result
IdleThread == [pc |-> "idle", op |-> "none", arg |-> <<>>, read |-> {}, morph |-> 0, result |-> <<>>]

NoThreads == [t \in Threads |-> IdleThread]

Init ==
    /\ onnx_session = FALSE
    /\ onnx_tokenizer = FALSE
    /\ transformers_classifier = FALSE
    /\ cache = [k \in CacheKeys |-> NoEntry]
    /\ last = NoCall
    /\ pinned = NotPinned
    /\ ml_call = NoClassifierCall
    /\ complex_call = NoDetectorCall
    /\ reviews = NoReviews
    /\ run = NoRun
    /\ qr = NewQR
    /\ requests = NoRequests
    /\ morph = NoMorph
    /\ rusentilex_global = NotLoaded
    /\ lexicon_file = FileNotSeen
    /\ threads = NoThreads

\* a direct call of analyze_review_impressions (create_review, reanalyze_reviews);
\* pinned keeps the outcome of one earlier call, chosen freely, to compare later ones with
Analyze(text, rating, env) ==
    LET r == AnalyzeReviewImpressions(text, rating, MLNow, env) IN
    /\ SetML(r.st)
    /\ last' = Call("analyze", text, rating, FALSE, FALSE, TRUE, r.result, FALSE, TRUE)
    /\ \/ pinned' = pinned
       \/ /\ ~pinned.set
          /\ pinned' = [set |-> TRUE, text |-> text, rating |-> rating, result |-> r.result]
    /\ UNCHANGED <<cache, classify_vars, batch_vars, thread_vars>>

\* get_analysis_cached; with the backend down its first round-trip raises
GetAnalysisCached(text, rating, force_refresh, env, backend) ==
    LET key == MakeCacheKey(text, rating)
        r == AnalyzeReviewImpressions(text, rating, MLNow, env)
    IN
    /\ UNCHANGED <<pinned, classify_vars, batch_vars, thread_vars>>
    /\ IF text = <<>> \/ IsBlank(text)
       THEN /\ last' = Call("get", text, rating, force_refresh, FALSE, TRUE,
                            [tags |-> <<>>, score |-> BLANK_SCORE], FALSE, FALSE)
            /\ UNCHANGED <<ml_vars, cache>>
       ELSE IF ~force_refresh /\ backend = "down"
       THEN \* cache.get raises
            /\ last' = Call("get", text, rating, force_refresh, TRUE, FALSE,
                            EmptyResult, TRUE, FALSE)
            /\ UNCHANGED <<ml_vars, cache>>
       ELSE IF ~force_refresh /\ cache[key].present
       THEN /\ last' = Call("get", text, rating, force_refresh, FALSE, TRUE,
                            cache[key].value, FALSE, FALSE)
            /\ UNCHANGED <<ml_vars, cache>>
       ELSE IF backend = "down"
       THEN \* the analysis ran, cache.set raises
            /\ SetML(r.st)
            /\ last' = Call("get", text, rating, force_refresh, TRUE, FALSE,
                            EmptyResult, TRUE, TRUE)
            /\ UNCHANGED cache
       ELSE /\ SetML(r.st)
            /\ cache' = [cache EXCEPT ![key] = Entry(r.result)]
            /\ last' = Call("get", text, rating, force_refresh, FALSE, TRUE,
                            r.result, FALSE, TRUE)

\* invalidate_analysis_cache
InvalidateAnalysisCache(text, rating, backend) ==
    LET key == MakeCacheKey(text, rating) IN
    /\ UNCHANGED <<ml_vars, pinned, classify_vars, batch_vars, thread_vars>>
    /\ IF backend = "down"
       THEN /\ last' = Call("invalidate", text, rating, FALSE, TRUE, FALSE,
                            EmptyResult, TRUE, FALSE)
            /\ UNCHANGED cache
       ELSE /\ cache' = [cache EXCEPT ![key] = NoEntry]
            /\ last' = Call("invalidate", text, rating, FALSE, FALSE, TRUE,
                            EmptyResult, FALSE, FALSE)

\* clear_all_analysis_cache
ClearAllAnalysisCache(backend) ==
    /\ UNCHANGED <<ml_vars, pinned, classify_vars, batch_vars, thread_vars>>
    /\ IF backend = "down"
       THEN /\ last' = Call("clear", <<>>, 0, FALSE, TRUE, FALSE, EmptyResult, TRUE, FALSE)
            /\ UNCHANGED cache
       ELSE /\ cache' = [k \in CacheKeys |-> NoEntry]
            /\ last' = Call("clear", <<>>, 0, FALSE, FALSE, TRUE, EmptyResult, FALSE, FALSE)

\* an entry outlives CACHE_TIMEOUT and the backend drops it
Expire(key) ==
    /\ cache[key].present
    /\ cache' = [cache EXCEPT ![key] = NoEntry]
    /\ last' = Call("expire", <<>>, 0, FALSE, FALSE, FALSE, EmptyResult, FALSE, FALSE)
    /\ UNCHANGED <<ml_vars, pinned, classify_vars, batch_vars, thread_vars>>

\* the cache and its callers
Next ==
    \/ \E text \in SpecTexts, rating \in SpecRatings, force_refresh \in BOOLEAN,
          env \in MLEnvs, backend \in Backends :
          GetAnalysisCached(text, rating, force_refresh, env, backend)
    \/ \E text \in SpecTexts, rating \in SpecRatings, backend \in Backends :
          InvalidateAnalysisCache(text, rating, backend)
    \/ \E backend \in Backends : ClearAllAnalysisCache(backend)
    \/ \E key \in CacheKeys : Expire(key)

Spec == Init /\ [][Next]_vars

\* repeated direct calls of the orchestrator; the lazy loads go any way on
\* each call, the inference itself does not fail
NextML ==
    \E text \in SpecTexts, rating \in SpecRatings, env \in MLEnvs :
        env.inference = "ok" /\ Analyze(text, rating, env)

SpecML == Init /\ [][NextML]_vars

\* the texts handed to analyze_review_impressions and to find_aspect_tags
SvcTokens == {"Eda", "oficiant", "vkusno", "plyusy", "minusy", " "}

TagTokens == {"Eda", "oficiant", "hamil", "vkusno", "plokho", "dolgo", "ne", ",", ".", " "}

SvcTexts == SeqsUpTo(SvcTokens, MaxLen)

TagTexts == SeqsUpTo(TagTokens, MaxLen)

\* an earlier call of analyze_sentiment_ml in this process: it leaves the ML
\* globals as its lazy loads went
WarmUp(text, env) ==
    /\ SetML(AnalyzeSentimentML(text, MLNow, env).st)
    /\ UNCHANGED <<cache, last, pinned, classify_vars, batch_vars, thread_vars>>

\* the call of analyze_review_impressions under observation
AnalyzeOnce(text, rating, env) ==
    LET r == AnalyzeReviewImpressions(text, rating, MLNow, env) IN
    /\ SetML(r.st)
    /\ last' = Call("analyze", text, rating, FALSE, FALSE, TRUE, r.result, FALSE, TRUE)
    /\ UNCHANGED <<cache, pinned, classify_vars, batch_vars, thread_vars>>

\* the call of find_aspect_tags under observation; it has no score
FindAspectTagsOnce(text) ==
    /\ last' = Call("find_aspect_tags", text, 0, FALSE, FALSE, TRUE,
                    [tags |-> FindAspectTags(text), score |-> 0], FALSE, FALSE)
    /\ UNCHANGED <<ml_vars, cache, pinned, classify_vars, batch_vars, thread_vars>>

\* no call has been observed yet
NoneObserved == last.op = "none"

\* one call of the orchestrator or of the aspect tagger, on any text and
\* rating, in a process whose ML globals earlier calls have left in any state
NextAnalysis ==
    \/ NoneObserved /\ \E text \in SpecTexts, env \in MLEnvs : WarmUp(text, env)
    \/ NoneObserved /\ \E text \in SvcTexts, rating \in Ratings, env \in MLEnvs :
                           AnalyzeOnce(text, rating, env)
    \/ NoneObserved /\ \E text \in TagTexts : FindAspectTagsOnce(text)

SpecAnalysis == Init /\ [][NextAnalysis]_vars

\* a text longer than the 512 characters the backends are given
LongText == [i \in 1..(ML_MAX_CHARS + 1) |-> "vkusno"]

\* the texts handed to analyze_sentiment_ml directly
ClassifyTexts == {<<>>, <<" ">>, <<"vkusno">>, <<"hamil">>, <<"Eda">>, LongText}

Labels == {"positive", "negative", "neutral"}

\* the confidences a classifier can answer with: 0.000 .. 1.000, in thousandths
Confidences == 0..1000

\* a call of analyze_sentiment_ml: ml_call keeps the text, the globals before
\* the call, what the loads and the inference did during it, and its outcome
Classify(text, env) ==
    LET r == AnalyzeSentimentML(text, MLNow, env) IN
    /\ SetML(r.st)
    /\ ml_call' = [op |-> "classify", text |-> text, before |-> MLNow, env |-> env,
                   label |-> r.out.label, confidence |-> r.out.confidence,
                   backend |-> r.backend, exception |-> r.exception, raised |-> r.raised]
    /\ UNCHANGED <<cache, last, pinned, complex_call, batch_vars, thread_vars>>

\* a call of sentiment_to_score on any (label, confidence) a classifier can answer
SentimentToScoreCall(sentiment, confidence) ==
    /\ ml_call' = [op |-> "score", label |-> sentiment, confidence |-> confidence,
                   score |-> SentimentToScore(sentiment, confidence)]
    /\ UNCHANGED <<ml_vars, cache, last, pinned, complex_call, batch_vars, thread_vars>>

\* the classifier called on its own, any number of times, and the score
\* conversion (a pure function, so one call of it is looked at) at the end
NotScored == ml_call.op # "score"

NextClassify ==
    \/ NotScored /\ \E text \in ClassifyTexts, env \in MLEnvs : Classify(text, env)
    \/ NotScored /\ \E sentiment \in Labels, confidence \in Confidences :
                       SentimentToScoreCall(sentiment, confidence)

SpecClassify == Init /\ [][NextClassify]_vars

\* texts of several phrases and sentences about the food and the waiter
WindowTokens == {"Eda", "oficiant", "vkusno", "hamil", "ne", ",", "."}

WindowTexts == SeqsUpTo(WindowTokens, MaxWindowLen)

\* one call of find_aspect_tags on a text of several phrases and sentences
NextWindow ==
    NoneObserved /\ \E text \in WindowTexts : FindAspectTagsOnce(text)

SpecWindow == Init /\ [][NextWindow]_vars

\* texts of a negator and the words it turns around
NegationTokens == {"ne", "vkusno", "plokho"}

NegationTexts == SeqsUpTo(NegationTokens, MaxLen)

\* texts of the three negators, the words they turn around, a word they leave
\* alone and a comma
NegatorTokens == {"ne", "net", "ni", "vkusno", "plokho", "hamil", ","}

NegatorTexts == SeqsUpTo(NegatorTokens, MaxLen)

\* one call of the orchestrator on a text with negations, in a process whose
\* ML globals earlier calls have left in any state, or one call of the aspect
\* tagger on such a text
NextNegation ==
    \/ NoneObserved /\ \E text \in SpecTexts, env \in MLEnvs : WarmUp(text, env)
    \/ NoneObserved /\ \E text \in NegationTexts, rating \in Ratings, env \in MLEnvs :
                           AnalyzeOnce(text, rating, env)
    \/ NoneObserved /\ \E text \in NegatorTexts : FindAspectTagsOnce(text)

SpecNegation == Init /\ [][NextNegation]_vars

\* most tags of a review handed to the conflict detector
MaxTags == 4

\* the tag lists handed to the conflict detector: only the sentiment of a tag counts
TagLists == SeqsUpTo({[sentiment |-> s] : s \in Labels}, MaxTags)

\* a call of isComplex on any rating and tag list
IsComplexCall(rating, tags) ==
    /\ complex_call' = [op |-> "isComplex", rating |-> rating, tags |-> tags,
                        result |-> IsComplex(rating, tags)]
    /\ UNCHANGED <<ml_vars, cache, last, pinned, ml_call, batch_vars, thread_vars>>

NotJudged == complex_call.op = "none"

NextComplex ==
    NotJudged /\ \E rating \in Ratings, tags \in TagLists : IsComplexCall(rating, tags)

SpecComplex == Init /\ [][NextComplex]_vars

----------------------------------------------------------------------------
(* management/commands/reanalyze_reviews.py *)

\* most reviews in the database
MaxReviews == 2

BatchTexts == {<<>>, <<"Eda">>}

BatchRatings == {1, 5}

\* what a stored review holds of an analysis: nothing yet (tags [], score
\* None, written <<>>), or the (tags, score) of an analysis made without a
\* backend when it was created, the score written <<score>>
StoredAnalyses(text, rating) ==
    LET r == AnalyzeReviewImpressions(text, rating,
                 [session |-> FALSE, tokenizer |-> FALSE, classifier |-> FALSE],
                 [onnx |-> "unavailable", pipeline |-> "error", inference |-> "ok"]).result
    IN  {[tags |-> <<>>, sentiment_score |-> <<>>],
         [tags |-> r.tags, sentiment_score |-> <<r.score>>]}

\* the rows of Review, as far as the command reads and writes them;
\* updated_at counts the saves of the row
ReviewRows ==
    UNION {{[text |-> text, rating |-> rating, tags |-> a.tags,
             sentiment_score |-> a.sentiment_score, updated_at |-> 0] :
                a \in StoredAnalyses(text, rating)} :
           text \in BatchTexts, rating \in BatchRatings}

ReviewStocks == SeqsUpTo(ReviewRows, MaxReviews) \ {<<>>}

\* the reviews earlier requests and imports have left in the database
StoreReviews(stock) ==
    /\ reviews' = stock
    /\ UNCHANGED <<ml_vars, cache, last, pinned, classify_vars, run, qr_vars, thread_vars>>

\* Review.objects.all(): the keys of all rows
AllReviews(rows) == [k \in 1..Len(rows) |-> k]

\* a filter that lets every row through
FilterNothing(rows, qs, rating_filter) == qs

\* qs.filter(rating=rating_filter)
FilterRating(rows, qs, rating_filter) ==
    SelectSeq(qs, LAMBDA k : rows[k].rating = rating_filter)

\* handle, lines 30-44: the options, the queryset and the counters;
\* rating_filter 0 stands for None. The run also keeps the rows as they were
\* when it began and the keys it has analysed and finished so far.
HandleStart(dry_run, rating_filter) ==
    /\ run' = [pc |-> "loop", dry_run |-> dry_run, rating_filter |-> rating_filter,
               qs |-> IF rating_filter # 0
                      THEN FilterRating(reviews, AllReviews(reviews), rating_filter)
                      ELSE AllReviews(reviews),
               i |-> 1, updated |-> 0, changed_tags |-> 0, changed_score |-> 0,
               before |-> reviews, analysed |-> {}, finished |-> {},
               reported |-> FALSE]
    /\ UNCHANGED <<ml_vars, cache, last, pinned, classify_vars, reviews, qr_vars, thread_vars>>

\* handle, lines 46-70: one turn of the loop over the queryset; the analysis
\* meets the backends as env has them, and review.save raises or not
HandleRecord(env, save_raises) ==
    LET k == run.qs[run.i]
        review == reviews[k]
        r == AnalyzeReviewImpressions(review.text, review.rating, MLNow, env)
        new_tags == r.result.tags
        new_score == <<r.result.score>>
        tags_differ == new_tags # review.tags
        score_differs == new_score # review.sentiment_score
        counted == [run EXCEPT !.changed_tags = IF tags_differ THEN @ + 1 ELSE @,
                               !.changed_score = IF score_differs THEN @ + 1 ELSE @,
                               !.analysed = @ \cup {k}]
    IN  IF review.text = <<>>
        THEN /\ run' = [run EXCEPT !.i = @ + 1, !.finished = @ \cup {k}]
             /\ UNCHANGED <<ml_vars, reviews>>
        ELSE /\ SetML(r.st)
             /\ IF ~(tags_differ \/ score_differs)
                THEN /\ run' = [counted EXCEPT !.i = @ + 1, !.finished = @ \cup {k}]
                     /\ UNCHANGED reviews
                ELSE IF run.dry_run
                THEN /\ run' = [counted EXCEPT !.i = @ + 1, !.finished = @ \cup {k},
                                               !.updated = @ + 1]
                     /\ UNCHANGED reviews
                ELSE IF save_raises
                THEN /\ run' = [counted EXCEPT !.pc = "aborted"]
                     /\ UNCHANGED reviews
                ELSE /\ run' = [counted EXCEPT !.i = @ + 1, !.finished = @ \cup {k},
                                               !.updated = @ + 1]
                     /\ reviews' = [reviews EXCEPT ![k].tags = new_tags,
                                                   ![k].sentiment_score = new_score,
                                                   ![k].updated_at = @ + 1]

\* handle, lines 72-79: the final report of the counts
HandleReport ==
    /\ run' = [run EXCEPT !.pc = "done", !.reported = TRUE]
    /\ UNCHANGED <<ml_vars, cache, last, pinned, classify_vars, reviews, qr_vars, thread_vars>>

InLoop == run.pc = "loop"

\* one run of the command over any database
NextBatch ==
    \/ (run.pc = "idle" /\ reviews = NoReviews) /\ \E stock \in ReviewStocks : StoreReviews(stock)
    \/ (run.pc = "idle" /\ reviews # NoReviews) /\ \E dry_run \in BOOLEAN, rating_filter \in {0} \cup BatchRatings :
                           HandleStart(dry_run, rating_filter)
    \/ (InLoop /\ run.i <= Len(run.qs)) /\ \E env \in MLEnvs, save_raises \in BOOLEAN :
                           /\ HandleRecord(env, save_raises)
                           /\ UNCHANGED <<cache, last, pinned, classify_vars, qr_vars, thread_vars>>
    \/ (InLoop /\ run.i > Len(run.qs)) /\ HandleReport

SpecBatch == Init /\ [][NextBatch]_vars

\* handle, lines 30-44, of the first run of the command or of the same
\* command once more, in a new process (the ML globals unset) or in the process
\* of the run before; env is how the run finds the backends
HandleStartOfRun(runs, dry_run, rating_filter, env, fresh) ==
    /\ run' = [pc |-> "loop", dry_run |-> dry_run, rating_filter |-> rating_filter,
               qs |-> IF rating_filter # 0
                      THEN FilterRating(reviews, AllReviews(reviews), rating_filter)
                      ELSE AllReviews(reviews),
               i |-> 1, updated |-> 0, changed_tags |-> 0, changed_score |-> 0,
               before |-> reviews, analysed |-> {}, finished |-> {},
               reported |-> FALSE, runs |-> runs, env |-> env, fresh |-> fresh]
    /\ IF fresh THEN SetML(MLState(FALSE, FALSE, FALSE)) ELSE UNCHANGED ml_vars
    /\ UNCHANGED <<cache, last, pinned, classify_vars, reviews, qr_vars, thread_vars>>

\* reviews with no text and reviews the classifier is sure of
RerunTexts == {<<>>, <<"vkusno">>}

RerunRows ==
    UNION {{[text |-> text, rating |-> rating, tags |-> a.tags,
             sentiment_score |-> a.sentiment_score, updated_at |-> 0] :
                a \in StoredAnalyses(text, rating)} :
           text \in RerunTexts, rating \in BatchRatings}

RerunStocks == SeqsUpTo(RerunRows, MaxReviews) \ {<<>>}

\* one run of the command over any database, and the same command once more
\* with the backends as they were
NextRerun ==
    \/ (run.pc = "idle" /\ reviews = NoReviews) /\ \E stock \in RerunStocks : StoreReviews(stock)
    \/ (run.pc = "idle" /\ reviews # NoReviews) /\ \E dry_run \in BOOLEAN, rating_filter \in {0} \cup BatchRatings, env \in MLEnvs :
                           HandleStartOfRun(1, dry_run, rating_filter, env, TRUE)
    \/ (InLoop /\ run.i <= Len(run.qs)) /\ HandleRecord(run.env, FALSE)
                                        /\ UNCHANGED <<cache, last, pinned, classify_vars, qr_vars, thread_vars>>
    \/ (InLoop /\ run.i > Len(run.qs)) /\ HandleReport
    \/ (run.pc = "done" /\ run.runs = 1) /\ \E fresh \in BOOLEAN :
                           HandleStartOfRun(2, run.dry_run, run.rating_filter, run.env, fresh)

SpecRerun == Init /\ [][NextRerun]_vars

----------------------------------------------------------------------------
(* qr/views.py and qr/models.py: the redirect of a QR code *)

Handling(h, pc) == requests[h].pc = pc

\* QRRedirectView.get, lines 14-21: the row is loaded; an inactive code is a 404
QRGet(h) ==
    /\ requests' = [requests EXCEPT ![h] = [pc |-> IF qr.is_active THEN "log" ELSE "idle",
                                            scans |-> qr.scans]]
    /\ UNCHANGED <<ml_vars, cache, last, pinned, classify_vars, reviews, run, qr, thread_vars>>

\* QRRedirectView.get, lines 24-30: QRScan.objects.create
QRLogScan(h) ==
    /\ qr' = [qr EXCEPT !.scan_logs = @ + 1]
    /\ requests' = [requests EXCEPT ![h].pc = "increment"]
    /\ UNCHANGED <<ml_vars, cache, last, pinned, classify_vars, reviews, run, thread_vars>>

\* QR.increment_scans: self.scans += 1 on the loaded row, then
\* save(update_fields=['scans', 'last_scan_at'])
QRIncrementScans(h) ==
    /\ qr' = [qr EXCEPT !.scans = requests[h].scans + 1]
    /\ requests' = [requests EXCEPT ![h].pc = "redirect", ![h].scans = @ + 1]
    /\ UNCHANGED <<ml_vars, cache, last, pinned, classify_vars, reviews, run, thread_vars>>

\* QRRedirectView.get, line 36: the redirect is answered
QRRedirect(h) ==
    /\ requests' = [requests EXCEPT ![h].pc = "idle"]
    /\ UNCHANGED <<ml_vars, cache, last, pinned, classify_vars, reviews, run, qr, thread_vars>>

\* the requests that have loaded the row and not yet logged their scan
Loaded == Cardinality({h \in Handlers : Handling(h, "log")})

\* requests of the short link of one QR code, handled at the same time
NextQR ==
    \/ \E h \in Handlers : (Handling(h, "idle") /\ qr.scan_logs + Loaded < MaxScans) /\ QRGet(h)
    \/ \E h \in Handlers : Handling(h, "log") /\ QRLogScan(h)
    \/ \E h \in Handlers : Handling(h, "increment") /\ QRIncrementScans(h)
    \/ \E h \in Handlers : Handling(h, "redirect") /\ QRRedirect(h)

SpecQR == Init /\ [][NextQR]_vars

----------------------------------------------------------------------------
(* The general lexicon and its file *)

\* longest text, in tokens, handed to find_aspect_tags while the lexicon loads
MaxLexiconLen == 2

\* data/rusentilex.txt, a line as its fields between ', ': a comment, two
\* entries and an entry of a sentiment the loader leaves out
LexiconLines ==
    << <<"!">>,
       <<"skuchno", "Adv", "skuchnyj", "negative">>,
       <<"dolgij", "Adj", "dolgij", "negative">>,
       <<"stol", "Noun", "stol", "neutral">> >>

\* the file as a load can find it: missing, raising at open() or after some
\* lines of the iteration, or read to its end
LexiconFiles ==
    {[seen |-> TRUE, exists |-> FALSE, raises |-> FALSE, good |-> 0]}
        \cup {[seen |-> TRUE, exists |-> TRUE, raises |-> TRUE, good |-> k] : k \in 0..(Len(LexiconLines) - 1)}
        \cup {[seen |-> TRUE, exists |-> TRUE, raises |-> FALSE, good |-> Len(LexiconLines)]}

\* _load_rusentilex, lines 51-58: the lemmas the first n lines put into the dict
ParsedLemmas(lines, n) ==
    {lines[i][3] : i \in {j \in 1..n : /\ lines[j] # <<>>
                                        /\ lines[j][1] # "!"
                                        /\ Len(lines[j]) >= 4
                                        /\ lines[j][4] \in {"positive", "negative"}}}

\* _load_rusentilex: the global after the call; the except branch keeps what
\* the iteration had put into the dict
LoadRuSentiLex(global, file) ==
    IF global.assigned THEN global
    ELSE IF ~file.exists THEN [assigned |-> TRUE, lemmas |-> {}]
    ELSE [assigned |-> TRUE, lemmas |-> ParsedLemmas(LexiconLines, file.good)]

LexiconTokens == {"skuchnyj", "dolgij", "Eda", "vkusno", "hamil"}

LexiconTexts == SeqsUpTo(LexiconTokens, MaxLexiconLen) \ {<<>>}

\* find_aspect_tags in a process of one thread, the file being as the load finds it
FindAspectTagsLoading(text, file) ==
    LET loaded == LoadRuSentiLex(rusentilex_global, file)
        rusentilex == [lemma \in loaded.lemmas |-> RuSentiLex[lemma]]
    IN  /\ rusentilex_global' = loaded
        /\ lexicon_file' = IF rusentilex_global.assigned THEN lexicon_file ELSE file
        /\ last' = Call("find_aspect_tags", text, 0, FALSE, FALSE, TRUE,
                        [tags |-> FindAspectTagsWith(text, rusentilex), score |-> 0], FALSE, FALSE)
        /\ UNCHANGED <<ml_vars, cache, pinned, classify_vars, batch_vars, morph, threads>>

\* calls of find_aspect_tags one after another; the first loads the lexicon
NextLexicon ==
    \E text \in LexiconTexts, file \in LexiconFiles : FindAspectTagsLoading(text, file)

SpecLexicon == Init /\ [][NextLexicon]_vars

----------------------------------------------------------------------------
(* Threads on the lazily built globals of lemmatizer.py and segment_analyzer.py *)

ThreadWords == {"hamil", "Eda"}

\* 'skuchnyj' (boring) is a word of the general lexicon only
ThreadTexts == {<<"skuchnyj">>, <<"Eda", "vkusno">>}

At(t, pc) == threads[t].pc = pc

\* the thread goes on to pc; the other threads stay where they are
Goto(t, pc) == threads' = [threads EXCEPT ![t].pc = pc]

\* get_lemma(word), missing the lru_cache: the thread enters _get_morph
CallGetLemma(t, word) ==
    /\ threads' = [threads EXCEPT ![t] = [IdleThread EXCEPT !.pc = "morph_check",
                                             !.op = "get_lemma", !.arg = <<word>>]]
    /\ UNCHANGED <<ml_vars, cache, last, pinned, classify_vars, batch_vars, morph, rusentilex_global, lexicon_file>>

\* _get_morph, line 44: if _morph is None
MorphCheck(t) ==
    /\ Goto(t, IF morph.instance = 0 THEN "morph_construct" ELSE "morph_return")
    /\ UNCHANGED <<ml_vars, cache, last, pinned, classify_vars, batch_vars, morph, rusentilex_global, lexicon_file>>

\* _get_morph, line 45: _morph = pymorphy3.MorphAnalyzer(); instances are
\* numbered as they are constructed
MorphConstruct(t) ==
    /\ morph' = [instance |-> morph.constructed + 1, constructed |-> morph.constructed + 1]
    /\ Goto(t, "morph_return")
    /\ UNCHANGED <<ml_vars, cache, last, pinned, classify_vars, batch_vars, rusentilex_global, lexicon_file>>

\* _get_morph, line 46, and get_lemma, lines 52-56: the global is read again
\* and the word parsed with that instance
MorphReturn(t) ==
    /\ threads' = [threads EXCEPT ![t].pc = "done", ![t].morph = morph.instance,
                                  ![t].result = <<GetLemma(threads[t].arg[1])>>]
    /\ UNCHANGED <<ml_vars, cache, last, pinned, classify_vars, batch_vars, morph, rusentilex_global, lexicon_file>>

\* find_aspect_tags(text), lines 394-401: the thread enters _load_rusentilex
CallFindAspectTags(t, text) ==
    /\ threads' = [threads EXCEPT ![t] = [IdleThread EXCEPT !.pc = "lexicon_check",
                                             !.op = "find_aspect_tags", !.arg = text]]
    /\ UNCHANGED <<ml_vars, cache, last, pinned, classify_vars, batch_vars, morph, rusentilex_global, lexicon_file>>

\* _load_rusentilex, lines 41-42: if _rusentilex is not None: return _rusentilex
LexiconCheck(t) ==
    /\ Goto(t, IF rusentilex_global.assigned THEN "analyse" ELSE "lexicon_assign")
    /\ UNCHANGED <<ml_vars, cache, last, pinned, classify_vars, batch_vars, morph, rusentilex_global, lexicon_file>>

\* _load_rusentilex, line 44: _rusentilex = {}
LexiconAssign(t) ==
    /\ rusentilex_global' = [assigned |-> TRUE, lemmas |-> {}]
    /\ Goto(t, "lexicon_read")
    /\ UNCHANGED <<ml_vars, cache, last, pinned, classify_vars, batch_vars, morph, lexicon_file>>

\* _load_rusentilex, lines 51-58: one line of the file goes into the global dict
LexiconReadLine(t, lemma) ==
    /\ rusentilex_global' = [rusentilex_global EXCEPT !.lemmas = @ \cup {lemma}]
    /\ threads' = [threads EXCEPT ![t].read = @ \cup {lemma}]
    /\ UNCHANGED <<ml_vars, cache, last, pinned, classify_vars, batch_vars, morph, lexicon_file>>

\* _load_rusentilex, lines 59-62: the file is read, the global dict returned
LexiconReturn(t) ==
    /\ Goto(t, "analyse")
    /\ UNCHANGED <<ml_vars, cache, last, pinned, classify_vars, batch_vars, morph, rusentilex_global, lexicon_file>>

\* the entries the global dict holds now
LexiconNow == [lemma \in rusentilex_global.lemmas |-> RuSentiLex[lemma]]

\* find_aspect_tags, lines 403-435, with the dict as it is when the words are looked up
Analyse(t) ==
    /\ threads' = [threads EXCEPT ![t].pc = "done",
                                  ![t].result = FindAspectTagsWith(threads[t].arg, LexiconNow)]
    /\ UNCHANGED <<ml_vars, cache, last, pinned, classify_vars, batch_vars, morph, rusentilex_global, lexicon_file>>

\* the thread is free for its next call
Done(t) ==
    /\ threads' = [threads EXCEPT ![t] = IdleThread]
    /\ UNCHANGED <<ml_vars, cache, last, pinned, classify_vars, batch_vars, morph, rusentilex_global, lexicon_file>>

Unread(t) == DOMAIN RuSentiLex \ threads[t].read

\* the threads of one process, interleaved in any way
NextThreads ==
    \/ \E t \in Threads : At(t, "idle") /\ \E word \in ThreadWords : CallGetLemma(t, word)
    \/ \E t \in Threads : At(t, "morph_check") /\ MorphCheck(t)
    \/ \E t \in Threads : At(t, "morph_construct") /\ MorphConstruct(t)
    \/ \E t \in Threads : At(t, "morph_return") /\ MorphReturn(t)
    \/ \E t \in Threads : At(t, "idle") /\ \E text \in ThreadTexts : CallFindAspectTags(t, text)
    \/ \E t \in Threads : At(t, "lexicon_check") /\ LexiconCheck(t)
    \/ \E t \in Threads : At(t, "lexicon_assign") /\ LexiconAssign(t)
    \/ \E t \in Threads : At(t, "lexicon_read") /\ \E lemma \in Unread(t) : LexiconReadLine(t, lemma)
    \/ \E t \in Threads : (At(t, "lexicon_read") /\ Unread(t) = {}) /\ LexiconReturn(t)
    \/ \E t \in Threads : At(t, "analyse") /\ Analyse(t)
    \/ \E t \in Threads : At(t, "done") /\ Done(t)

SpecThreads == Init /\ [][NextThreads]_vars

----------------------------------------------------------------------------
(* Claims on the orchestrator's determinism and on the cache *)


MLStates == [session : BOOLEAN, tokenizer : BOOLEAN, classifier : BOOLEAN]

\* every (tags, score) analyze can return for a text and a rating
AnalyzeResults(text, rating) ==
    {AnalyzeReviewImpressions(text, rating, st, env).result : st \in MLStates, env \in MLEnvs}

LastKey == MakeCacheKey(last.text, last.rating)

\* C1: any two calls of analyze on the same (text, rating) return the same
\* (tags, score), whatever happened between them and however the lazy loads of
\* the ML backends went: a call returns what the pinned earlier call returned.
C1_AnalyzeDeterministic ==
    (last.op = "analyze" /\ pinned.set /\ pinned.text = last.text /\ pinned.rating = last.rating)
        => last.result = pinned.result

\* C2: whatever get_analysis_cached returns for a text (blank ones included),
\* a rating and either force_refresh is a (tags, score) that analyze returns
\* for that text and rating.
C2_CachedEqualsAnalyze ==
    (last.op = "get" /\ last.returned) => last.result \in AnalyzeResults(last.text, last.rating)

\* C3: get_analysis_cached runs the analyzer exactly when force_refresh is set
\* or nothing is stored under the key; otherwise it returns the stored value;
\* after a call that ran the analyzer the entry under the key is the value
\* just computed.
C3_ComputeExactlyOnMissOrForce ==
    [][ last'.op = "get" =>
          LET key == MakeCacheKey(last'.text, last'.rating) IN
          /\ last'.invoked <=> (last'.force \/ ~cache[key].present)
          /\ ~last'.invoked => (last'.returned /\ last'.result = cache[key].value)
          /\ last'.invoked => (last'.returned /\ cache'[key] = Entry(last'.result)) ]_vars

\* C4: no failure of the cache backend leaves get_analysis_cached,
\* invalidate_analysis_cache or clear_all_analysis_cache as an exception, and
\* with the backend down get_analysis_cached acts as on a miss: it runs the
\* analysis and returns its result.
C4_BackendOutageIsAMiss ==
    /\ ~last.raised
    /\ (last.op = "get" /\ last.outage) =>
          (last.returned /\ last.invoked /\ last.result \in AnalyzeResults(last.text, last.rating))

\* C5: invalidate(t, r) removes the entry keyed by (t, r) and no other; the next
\* non-forced get of (t, r) recomputes, and a next non-forced get of another
\* stored key is a hit that returns the entry unchanged.
C5_InvalidateRemovesExactlyOne ==
    [][ /\ last'.op = "invalidate" =>
             LET key == MakeCacheKey(last'.text, last'.rating) IN
             /\ ~cache'[key].present
             /\ \A k \in CacheKeys \ {key} : cache'[k] = cache[k]
        /\ (last.op = "invalidate" /\ last'.op = "get" /\ ~last'.force) =>
             LET key == MakeCacheKey(last'.text, last'.rating) IN
             /\ (key = LastKey) => last'.invoked
             /\ (key # LastKey /\ cache[key].present) =>
                   (~last'.invoked /\ last'.returned /\ last'.result = cache[key].value) ]_vars

----------------------------------------------------------------------------
(* Claims on the tags and the score of one analysis *)

AnalyzeReturned == last.op = "analyze" /\ last.returned

TaggerReturned == last.op = "find_aspect_tags" /\ last.returned

LastTags == last.result.tags

\* f(rating) as the contract states it
ContractSentiment(rating) ==
    CASE rating \in {4, 5} -> "positive"
      [] rating \in {1, 2} -> "negative"
      [] OTHER -> "neutral"

\* C6: for an empty or whitespace-only text and any rating 1..5, analyze
\* returns exactly one tag: category General, subcategory General impression,
\* sentiment positive for rating >= 4, negative for rating <= 2, neutral for 3.
C6_BlankTextGeneralTag ==
    (AnalyzeReturned /\ IsBlank(last.text)) =>
        LastTags = << [category |-> "Obshchee", subcategory |-> "Obshchee vpechatlenie",
                       sentiment |-> ContractSentiment(last.rating)] >>

\* analyze has answered a whitespace-only text rated 2 with the one negative General tag
C6_Witness ==
    /\ AnalyzeReturned
    /\ last.text = <<" ">>
    /\ last.rating = 2
    /\ Len(LastTags) = 1
    /\ LastTags[1].sentiment = "negative"

\* the score the contract derives from the rating alone, in hundredths
ContractRatingScore(rating) ==
    CASE rating \in {4, 5} -> 100
      [] rating \in {1, 2} -> 0 - 100
      [] OTHER -> 0

\* C7 as stated: for an empty text, and for a text without any sentiment
\* signal (a whitespace-only one), the score of analyze is +1 for rating >= 4,
\* -1 for rating <= 2 and 0 for rating 3.
C7_ScoreFromRating ==
    (AnalyzeReturned /\ IsBlank(last.text)) => last.result.score = ContractRatingScore(last.rating)

\* the scores the classifier's answer on a text can turn into: its confidence
\* rounded to two decimals and signed by its label, or 0.0 when the label is
\* neutral or no backend answered
ClassifierScores(text) ==
    LET out == ModelOutput(text)
        rounded == Round2(out.confidence)
    IN  {0} \cup (CASE out.label = "positive" -> {rounded}
                    [] out.label = "negative" -> {0 - rounded}
                    [] OTHER -> {})

\* C7 amended: the score of analyze does not depend on the rating.  For an
\* empty or whitespace-only text it is 0.0 for every rating; for any other
\* text it is the classifier's confidence signed by its label and rounded to
\* two decimals, and 0.0 when the label is neutral or the classifier gave no answer.
C7_ScoreFromClassifier ==
    AnalyzeReturned =>
        /\ IsBlank(last.text) => last.result.score = 0
        /\ last.result.score \in ClassifierScores(last.text)

\* analyze has answered the empty text rated 5 with the score 0.0
C7_Witness ==
    /\ AnalyzeReturned
    /\ last.text = <<>>
    /\ last.rating = 5
    /\ last.result.score = 0

\* C8: every tag find_aspect_tags or analyze returns, the generic fallback tag
\* included, has a category that is a key of IMPRESSION_CATEGORIES and a
\* subcategory in the list of that category.
C8_TagsInTaxonomy ==
    (AnalyzeReturned \/ TaggerReturned) =>
        \A k \in 1..Len(LastTags) : InTaxonomy(LastTags[k].category, LastTags[k].subcategory)

\* C9: no result of find_aspect_tags or of analyze holds two tags with the
\* same (category, subcategory), however often a category marker occurs.
C9_NoDuplicateTags ==
    (AnalyzeReturned \/ TaggerReturned) =>
        \A i, j \in 1..Len(LastTags) :
            (LastTags[i].category = LastTags[j].category
             /\ LastTags[i].subcategory = LastTags[j].subcategory) => i = j

\* find_aspect_tags has answered a text whose category marker occurs twice, in
\* two sentences, with a single tag
C9_Witness ==
    /\ TaggerReturned
    /\ last.text = <<"Eda", ".", "Eda">>
    /\ Len(FindCategoryMarkers(FindWords(Lower(last.text)), last.text)) = 2
    /\ Len(LastTags) = 1

\* C10: in a result of find_aspect_tags, if some tag has a category other
\* than the generic one then no tag has the generic category.
C10_NoGenericBesideSpecific ==
    TaggerReturned =>
        ((\E k \in 1..Len(LastTags) : LastTags[k].category # "Obshchee")
            => (\A k \in 1..Len(LastTags) : LastTags[k].category # "Obshchee"))

\* find_aspect_tags has answered a text that holds a category marker and a
\* sentiment word, the stuff of a generic tag, with specific tags only
C10_Witness ==
    /\ TaggerReturned
    /\ last.text = <<"Eda", "vkusno">>
    /\ CollectSentiments(last.text, RuSentiLex).positive_found # <<>>
    /\ LastTags # <<>>
    /\ \A k \in 1..Len(LastTags) : LastTags[k].category = "Produkt"

----------------------------------------------------------------------------
(* Claims on the classifier *)

Classified1 == ml_call.op = "classify"

\* C11: the score analyze returns, which is sentiment_to_score of the
\* classifier's (label, confidence), lies in [-1, 1] for every label and every
\* confidence in [0, 1], and so for every outcome analyze_sentiment_ml has.
C11_ScoreInRange ==
    /\ ml_call.op = "score" => (ml_call.score >= 0 - 100 /\ ml_call.score <= 100)
    /\ (Classified1 /\ ~ml_call.raised) =>
          LET score == SentimentToScore(ml_call.label, ml_call.confidence)
          IN  score >= 0 - 100 /\ score <= 100

\* sentiment_to_score has turned ('negative', 1.0) into -1.0, the lower end of the range
C11_Witness ==
    /\ ml_call.op = "score"
    /\ ml_call.label = "negative"
    /\ ml_call.confidence = 1000
    /\ ml_call.score = 0 - 100

\* C12: analyze_sentiment_ml never raises; for every text (empty,
\* whitespace-only, longer than the model takes) and every failure of a load or
\* of the inference it returns a label among positive, negative, neutral with
\* a confidence in [0, 1], and (neutral, 0.5) whenever an exception occurred.
C12_ClassifyNeverRaises ==
    Classified1 =>
        /\ ~ml_call.raised
        /\ ml_call.label \in {"positive", "negative", "neutral"}
        /\ ml_call.confidence >= 0 /\ ml_call.confidence <= 1000
        /\ ml_call.exception => (ml_call.label = "neutral" /\ ml_call.confidence = 500)

\* analyze_sentiment_ml has answered the over-long text with (neutral, 0.5)
\* after the inference raised
C12_Witness ==
    /\ Classified1
    /\ Len(ml_call.text) > 512
    /\ ml_call.exception
    /\ ~ml_call.raised
    /\ ml_call.label = "neutral"

\* the compiled model can be had at a call: it is loaded, or its load succeeds
OnnxAvailable == ml_call.before.tokenizer \/ ml_call.env.onnx = "ok"

\* the pipeline backend can be had at a call
PipelineLoads == ml_call.before.classifier \/ ml_call.env.pipeline = "ok"

\* C13: on every call of analyze_sentiment_ml on a text that is not blank,
\* with an inference that works: the ONNX backend answers if it is available;
\* if it is not (no model file, or a load that did not complete) and the
\* pipeline backend loads, the pipeline backend answers; (neutral, 0.5) for
\* want of a model is returned only if neither backend loads.
C13_BackendPreference ==
    (Classified1 /\ ~IsBlank(ml_call.text) /\ ml_call.env.inference = "ok") =>
        LET answered == ~ml_call.exception /\ ~ml_call.raised IN
        /\ OnnxAvailable => (ml_call.backend = "onnx" /\ answered)
        /\ (~OnnxAvailable /\ PipelineLoads) => (ml_call.backend = "pipeline" /\ answered)
        /\ ~answered => (~OnnxAvailable /\ ~PipelineLoads)
        /\ ml_call.backend = "none" => (~OnnxAvailable /\ ~PipelineLoads)

----------------------------------------------------------------------------
(* Claims on the windows of a category marker *)

\* the tokens from one offset to another, both included
Between(text, p, q) == {text[k + 1] : k \in Min(p, q)..Max(p, q)}

\* the offsets of the phrase that holds offset p: no comma and no full stop up to them
PhraseWindow(text, p) ==
    {q \in 0..(Len(text) - 1) : Between(text, p, q) \cap {",", "."} = {}}

\* the offsets of the sentence that holds offset p
SentenceWindow(text, p) ==
    {q \in 0..(Len(text) - 1) : "." \notin Between(text, p, q)}

\* the offsets of that sentence and of its two neighbours: at most one full stop away
NeighbourWindow(text, p) ==
    {q \in 0..(Len(text) - 1) :
        Cardinality({k \in Min(p, q)..Max(p, q) : text[k + 1] = "."}) <= 1}

\* the weighted number of sentiment words of one polarity in a window; a
\* negation ('ne ' + word) weighs 2
WeightedCount(sentiment_words, window, sentiment) ==
    LET hits == {k \in 1..Len(sentiment_words) :
                    /\ sentiment_words[k].pos \in window
                    /\ sentiment_words[k].sentiment = sentiment}
        doubled == {k \in hits : /\ Len(sentiment_words[k].word) > 1
                                 /\ sentiment_words[k].word[1] = "ne"}
    IN  Cardinality(hits) + Cardinality(doubled)

HasSentiment(sentiment_words, window) ==
    \E k \in 1..Len(sentiment_words) : sentiment_words[k].pos \in window

\* the sentiment the contract gives a marker at offset p: that of the
\* narrowest window with a sentiment word in it
ContractWindowSentiment(text, sentiment_words, p) ==
    LET window == IF HasSentiment(sentiment_words, PhraseWindow(text, p))
                  THEN PhraseWindow(text, p)
                  ELSE IF HasSentiment(sentiment_words, SentenceWindow(text, p))
                  THEN SentenceWindow(text, p)
                  ELSE NeighbourWindow(text, p)
        positive == WeightedCount(sentiment_words, window, "positive")
        negative == WeightedCount(sentiment_words, window, "negative")
    IN  IF negative > positive THEN "negative"
        ELSE IF positive > negative THEN "positive"
        ELSE "neutral"

----------------------------------------------------------------------------
(* Claims on negation in the orchestrator *)

HasTagOf(tags, sentiment) == \E i \in 1..Len(tags) : tags[i].sentiment = sentiment

\* C15: analyze with rating 3 returns a negative tag for a negator followed
\* by a word of positive lemma ('ne vkusno') and a positive tag for a negator
\* followed by a litotes word ('ne plokho'), whatever the classifier answers
\* and whether or not a backend is there.
C15_NegationInverts ==
    (AnalyzeReturned /\ last.rating = 3) =>
        /\ last.text = <<"ne", "vkusno">> => HasTagOf(LastTags, "negative")
        /\ last.text = <<"ne", "plokho">> => HasTagOf(LastTags, "positive")

----------------------------------------------------------------------------
(* Claims on the conflict detector *)

Judged == complex_call.op = "isComplex"

\* P and N of the contract: the positive and the negative tags of the call
PositiveCount == Cardinality({i \in 1..Len(complex_call.tags) : complex_call.tags[i].sentiment = "positive"})

NegativeCount == Cardinality({i \in 1..Len(complex_call.tags) : complex_call.tags[i].sentiment = "negative"})

\* C16: isComplex(rating, tags) is true when rating <= 3 with N = 0 and
\* P >= 1, when rating = 1 with P > N and both > 0, when rating = 5 with P = 0
\* and N >= 1, and when rating >= 4 with N >= 1 and N > 2*P; it is true for
\* (1, [positive, positive]) and (5, [negative]) and false for (3, [negative]).
C16_IsComplexFlags ==
    Judged =>
        LET rating == complex_call.rating
            tags == complex_call.tags
            positive == [sentiment |-> "positive"]
            negative == [sentiment |-> "negative"]
        IN  /\ (rating <= 3 /\ NegativeCount = 0 /\ PositiveCount >= 1) => complex_call.result
            /\ (rating = 1 /\ PositiveCount > NegativeCount /\ PositiveCount > 0 /\ NegativeCount > 0) => complex_call.result
            /\ (rating = 5 /\ PositiveCount = 0 /\ NegativeCount >= 1) => complex_call.result
            /\ (rating >= 4 /\ NegativeCount >= 1 /\ NegativeCount > 2 * PositiveCount) => complex_call.result
            /\ (rating = 1 /\ tags = <<positive, positive>>) => complex_call.result
            /\ (rating = 5 /\ tags = <<negative>>) => complex_call.result
            /\ (rating = 3 /\ tags = <<negative>>) => ~complex_call.result

\* isComplex has flagged a review of rating 3 whose tags are positive or
\* neutral, at least one of them positive
C16_Witness ==
    /\ Judged
    /\ complex_call.rating = 3
    /\ NegativeCount = 0
    /\ PositiveCount >= 1
    /\ Len(complex_call.tags) > PositiveCount
    /\ complex_call.result

----------------------------------------------------------------------------
(* Claims on the bulk re-analysis *)

RunEnded == run.pc \in {"done", "aborted"}

\* C17: a record whose processing raises does not abort the run: the run
\* ends with its final report, and every other record it selected has been
\* processed.
C17_FailureIsolated ==
    RunEnded =>
        /\ run.reported
        /\ \A j \in 1..Len(run.qs) : j # run.i => run.qs[j] \in run.finished

RunBegun == run.pc # "idle"

\* C18: a run changes no review it was not asked to change: a dry run leaves
\* every row as it was, and a run with a rating filter neither analyses nor
\* changes a row of another rating; no run changes a row it has not analysed.
C18_OnlyAskedReviewsChange ==
    RunBegun =>
        /\ Len(reviews) = Len(run.before)
        /\ run.dry_run => reviews = run.before
        /\ \A k \in 1..Len(reviews) :
              /\ (run.rating_filter # 0 /\ run.before[k].rating # run.rating_filter) =>
                    k \notin run.analysed /\ reviews[k] = run.before[k]
              /\ k \notin run.analysed => reviews[k] = run.before[k]
              /\ reviews[k].text = run.before[k].text
              /\ reviews[k].rating = run.before[k].rating

\* a run filtered on rating 5 has ended with its report: it has rewritten a
\* review of rating 5 and left alone one of rating 1 that has a text and no
\* tags yet
C18_Witness ==
    /\ run.pc = "done"
    /\ ~run.dry_run
    /\ run.rating_filter = 5
    /\ \E k \in 1..Len(reviews) :
          /\ reviews[k].rating = 5
          /\ reviews[k] # run.before[k]
    /\ \E k \in 1..Len(reviews) :
          /\ reviews[k].rating = 1
          /\ reviews[k].text # <<>>
          /\ reviews[k].tags = <<>>
          /\ reviews[k] = run.before[k]

----------------------------------------------------------------------------
(* Claims on the threads *)

Returned(t, op) == threads[t].pc = "done" /\ threads[t].op = op

\* C19: however the first calls of get_lemma from several threads interleave,
\* the morphological analyzer is constructed once and no more, and every call
\* that has returned used that one instance.
C19_MorphConstructedOnce ==
    /\ morph.constructed <= 1
    /\ \A t \in Threads : Returned(t, "get_lemma") =>
          morph.constructed = 1 /\ threads[t].morph = 1

\* C20: however concurrent analyses interleave with the first load of the
\* general lexicon, no analysis looks words up while the lexicon is empty or
\* partly filled, and each returns the tags a sequential analysis of its text
\* returns.
C20_LexiconLoadSafe ==
    /\ \A t \in Threads : At(t, "analyse") => rusentilex_global.lemmas = DOMAIN RuSentiLex
    /\ \A t \in Threads : Returned(t, "find_aspect_tags") =>
          threads[t].result = FindAspectTags(threads[t].arg)

----------------------------------------------------------------------------
(* Claims on the generic fallback tag and on empty results *)

\* every category marker find_aspect_tags works on for a text, explicit and implicit
AllCategoryMarkers(text) ==
    FindCategoryMarkers(FindWords(Lower(text)), text)
        \o CollectSentiments(text, RuSentiLex).implicit_markers

\* the sentiment signals collected anywhere in a text
Signals(text) == CollectSentiments(text, RuSentiLex).sentiment_words

SignalsOf(text, sentiment) ==
    Cardinality({k \in 1..Len(Signals(text)) : Signals(text)[k].sentiment = sentiment})

\* the majority over all signals of a text, neutral on a tie
Majority(text) ==
    IF SignalsOf(text, "negative") > SignalsOf(text, "positive") THEN "negative"
    ELSE IF SignalsOf(text, "positive") > SignalsOf(text, "negative") THEN "positive"
    ELSE "neutral"

----------------------------------------------------------------------------
(* Claims on the scans of a QR code *)

NoRequestUnderWay == \A h \in Handlers : Handling(h, "idle")

\* C23: after any number of successful redirects of an active QR code, some
\* of them handled at the same time, its scans counter equals the number of
\* rows of its scan log.
C23_ScansEqualLogs ==
    NoRequestUnderWay => qr.scans = qr.scan_logs

----------------------------------------------------------------------------
(* Claims on the sentiment collector *)

\* the signal the collector holds for the negation of a word, if any
NegationSignals(text, word, sentiment) ==
    {k \in 1..Len(Signals(text)) :
        /\ Signals(text)[k].word = <<"ne", word>>
        /\ Signals(text)[k].lemma = <<GetLemma(word)>>
        /\ Signals(text)[k].sentiment = sentiment}

\* the polarity the contract gives a negated lemma
ContractNegation(lemma) ==
    IF lemma \in LITOTES THEN "positive"
    ELSE IF lemma \in POSITIVE_LEMMAS \cup NEGATABLE_WORDS THEN "negative"
    ELSE "none"

\* C24: a word right after one of the negators ne / net / ni is recorded as
\* positive evidence when its lemma is a litotes, be it positive or negatable
\* as well, and otherwise as negative evidence when its lemma is positive or
\* negatable; find_aspect_tags on a text that is such a bigram returns a tag
\* of that polarity.
C24_NegationAndLitotes ==
    TaggerReturned =>
        LET text == last.text
            words == FindWords(Lower(text))
        IN  /\ \A i \in 2..Len(words) :
                  (words[i - 1] \in NEGATORS /\ ContractNegation(GetLemma(words[i])) # "none") =>
                      NegationSignals(text, words[i], ContractNegation(GetLemma(words[i]))) # {}
            /\ (Len(text) = 2 /\ text[1] \in NEGATORS /\ ContractNegation(GetLemma(text[2])) # "none") =>
                  HasTagOf(LastTags, ContractNegation(GetLemma(text[2])))

\* find_aspect_tags has answered 'ni plokho', a negator other than 'ne' before
\* a litotes that is negatable as well, with a positive tag
C24_Witness ==
    /\ TaggerReturned
    /\ last.text = <<"ni", "plokho">>
    /\ GetLemma("plokho") \in LITOTES \cap NEGATABLE_WORDS
    /\ NegationSignals(last.text, "plokho", "positive") # {}
    /\ HasTagOf(LastTags, "positive")

\* the offsets of the tokens a signal was made from: the tokens of its
\* surface where the surface stands in the text at the recorded offset, the
\* one token at the recorded offset otherwise
Covers(text, sw) ==
    IF sw.pos \in MatchStarts(Lower(text), sw.word)
    THEN sw.pos..(sw.pos + Len(sw.word) - 1)
    ELSE {sw.pos}

\* the signals of a text made from the token at offset q
SignalsAt(text, q) == {k \in 1..Len(Signals(text)) : q \in Covers(text, Signals(text)[k])}

\* the token at offset q is a word the single-word lookup gives a sentiment
BearsSentiment(text, q) ==
    /\ IsWord(Lower(text)[q + 1])
    /\ WordSentiment(GetLemma(Lower(text)[q + 1]), RuSentiLex) # "none"

\* C25: each step of the collector takes exactly the token occurrences no
\* earlier step has claimed: no occurrence gives more than one signal, and an
\* occurrence of a word with a sentiment that no earlier step has claimed
\* gives one through the single-word lookup.
C25_EachOccurrenceOnce ==
    TaggerReturned =>
        \A q \in 0..(Len(last.text) - 1) :
            /\ Cardinality(SignalsAt(last.text, q)) <= 1
            /\ BearsSentiment(last.text, q) => SignalsAt(last.text, q) # {}

\* the offsets at which the surface of a signal, or the word it negates, stands in a text
OccurrencesOf(text, sw) ==
    MatchStarts(Lower(text), sw.word)
        \cup {q \in 0..(Len(text) - 1) : <<Lower(text)[q + 1]>> = SubSeq(sw.word, Len(sw.word), Len(sw.word))}

\* C26: every retained signal is recorded at the offset of the occurrence it
\* was made from: it stands at an occurrence of its surface, and the signals
\* made from several occurrences of one surface stand at different offsets.
C26_SignalAtOwnOffset ==
    (TaggerReturned /\ ~IsBlank(last.text)) =>
        LET sws == Signals(last.text)
        IN  /\ \A k \in 1..Len(sws) : sws[k].pos \in OccurrencesOf(last.text, sws[k])
            /\ \A k, l \in 1..Len(sws) :
                  (k # l /\ sws[k].word = sws[l].word) => sws[k].pos # sws[l].pos

----------------------------------------------------------------------------
(* Claims on the tag builder *)

\* the lemmas in the window of the sentence of offset p and its two
\* neighbours: those of the words of the text there and those the signals
\* recorded there carry
WindowLemmas(text, signals, p) ==
    LET window == NeighbourWindow(text, p)
        lower == Lower(text)
    IN  {GetLemma(lower[q + 1]) : q \in {r \in window : IsWord(lower[r + 1])}}
            \cup UNION {LemmasOf(signals[k].word) \cup LemmasOf(signals[k].lemma) :
                            k \in {j \in 1..Len(signals) : signals[j].pos \in window}}

\* the subcategories of a category with a marker lemma in that window
ContractSubcategories(text, signals, category, p) ==
    IF category \notin DOMAIN SUBCATEGORY_MARKERS THEN {}
    ELSE LET lemmas == WindowLemmas(text, signals, p)
         IN  {SUBCATEGORY_MARKERS[category][j].subcategory :
                  j \in {i \in 1..Len(SUBCATEGORY_MARKERS[category]) :
                            SUBCATEGORY_MARKERS[category][i].lemmas \cap lemmas # {}}}

\* C27: for each category marker the tag builder emits exactly one tag per
\* subcategory with a matching lemma in the window of the marker's sentence
\* and one sentence on each side, all with the same sentiment and the same
\* evidence of at most 3 entries, and exactly one tag of the category's first
\* subcategory when none matches.
C27_OneTagPerMatchedSubcategory ==
    (TaggerReturned /\ ~IsBlank(last.text)) =>
        LET text == last.text
            markers == AllCategoryMarkers(text)
            signals == Signals(text)
            phrase_ranges == PhraseRanges(text)
            sentence_ranges == SentenceRanges(text)
        IN  \A k \in 1..Len(markers) :
                LET tags == DetermineCategorySentiment(markers[k], signals,
                                phrase_ranges, sentence_ranges, text)
                    matched == ContractSubcategories(text, signals,
                                   markers[k].category, markers[k].pos)
                    subcategories == {tags[i].subcategory : i \in 1..Len(tags)}
                IN  /\ subcategories = IF matched # {} THEN matched
                                       ELSE {FirstSubcategory(markers[k].category)}
                    /\ Len(tags) = Cardinality(subcategories)
                    /\ \A i \in 1..Len(tags) :
                          /\ tags[i].category = markers[k].category
                          /\ tags[i].sentiment = tags[1].sentiment
                          /\ tags[i].evidence = tags[1].evidence
                          /\ Len(tags[i].evidence) <= 3

\* find_aspect_tags has answered 'food. tasty': the marker 'food' gets one tag
\* for the kitchen and one for the quality, the word of the next sentence,
\* both positive with the same evidence
C27_Witness ==
    /\ TaggerReturned
    /\ last.text = <<"Eda", ".", "vkusno">>
    /\ Len(LastTags) = 2
    /\ LastTags[1].category = "Produkt" /\ LastTags[2].category = "Produkt"
    /\ LastTags[1].subcategory # LastTags[2].subcategory
    /\ LastTags[1].sentiment = "positive" /\ LastTags[2].sentiment = "positive"
    /\ LastTags[1].evidence = LastTags[2].evidence

----------------------------------------------------------------------------
(* Claims on the load of the general lexicon *)

\* the load found the file missing, or reading it raised
LexiconLoadFailed == lexicon_file.seen /\ (~lexicon_file.exists \/ lexicon_file.raises)

\* C28: when the general-lexicon file is missing or cannot be read, the
\* analysis does not fail, the loader returns an empty map, and
\* find_aspect_tags returns the tags the domain lexicons alone give.
C28_FailedLoadIsEmptyLexicon ==
    (TaggerReturned /\ LexiconLoadFailed) =>
        /\ ~last.raised
        /\ rusentilex_global.lemmas = {}
        /\ LastTags = FindAspectTagsWith(last.text, [lemma \in {} |-> "negative"])

----------------------------------------------------------------------------
(* Claims on the globals of the ONNX backend *)

\* C29: after any sequence of calls of analyze_sentiment_ml, however their
\* loads went, the ONNX session and its tokenizer are both set or both unset,
\* and no call has run the ONNX inference with only one of the two set.
C29_SessionAndTokenizerTogether ==
    /\ onnx_session = onnx_tokenizer
    /\ (Classified1 /\ ml_call.backend = "onnx") => (onnx_session /\ onnx_tokenizer)

----------------------------------------------------------------------------
(* Claims on running the bulk re-analysis twice *)

\* the command has run to its end a second time, with the same options, after
\* a run that saved its changes
RanAgain == run.pc = "done" /\ run.runs = 2 /\ ~run.dry_run

\* C30: after a run of the bulk re-analysis that is not a dry run has
\* completed, the same run once more over the unchanged reviews, with the same
\* rating filter, reports no changed tags and no changed score and saves no review.
C30_RerunChangesNothing ==
    RanAgain =>
        /\ run.changed_tags = 0
        /\ run.changed_score = 0
        /\ run.updated = 0
        /\ reviews = run.before

\* the same, for a second run in a process of its own
FreshRerunChangesNothing ==
    (RanAgain /\ run.fresh) =>
        /\ run.changed_tags = 0
        /\ run.changed_score = 0
        /\ run.updated = 0
        /\ reviews = run.before

====
